---- MODULE Spec2Model ----
(***************************************************************************)
(* State-machine model of the "Helper" chat client (ChatInterface.tsx),    *)
(* its chat_histories table, and the get-directory / chat-gemini edge      *)
(* functions.                                                              *)
(*                                                                         *)
(* React semantics used throughout: an event handler runs to completion    *)
(* against the values captured by the render that created it; several      *)
(* setState calls in one handler are batched and the last value written    *)
(* to a state cell wins; effects whose dependencies changed run right      *)
(* after the render that follows the handler.  An async handler keeps the  *)
(* values it captured when it was invoked across every await.              *)
(***************************************************************************)
EXTENDS Naturals, Integers, Sequences, FiniteSets, Bags, TLC

\* null / undefined, for string-valued cells
NULL == "null"
\* null, for activeConversationId (minted identifiers are positive)
NoId == 0

-----------------------------------------------------------------------------
(* Bounds *)

\* how many conversations createNewConversation may mint in one run
MaxConvs == 2
\* how many times handleSendMessage may be invoked in one run
MaxSubmits == 1
\* how many remote upserts may be in flight at once
MaxInflight == 2
\* how often Send Email is pressed in the composer
MaxConfirms == 1
\* how many times the clock is read for the conversation object of SpecStamp
MaxClock == 4
\* how many times handleSendMessage may be invoked in a run of SpecGate
MaxGateSubmits == 2
\* how many selects of loadFromSupabase may be awaited at once
MaxLoads == 2

-----------------------------------------------------------------------------
(* Texts.  A JavaScript string is the sequence of its UTF-16 code units, which
   is what length, slice, trim, includes and a regex without the u flag work
   on; toLowerCase works on the code points the units encode. *)

\* the printable ASCII characters U+0020..U+005F and U+0061..U+007E, in order
AsciiLow == " !\"#$%&'()*+,-./0123456789:;<=>?@ABCDEFGHIJKLMNOPQRSTUVWXYZ[\\]^_"
AsciiHigh == "abcdefghijklmnopqrstuvwxyz{|}~"

\* the code unit of an ASCII character
CodeUnitOf ==
    [ch \in {SubSeq(AsciiLow, i, i) : i \in 1..Len(AsciiLow)}
            \cup {SubSeq(AsciiHigh, i, i) : i \in 1..Len(AsciiHigh)}
            \cup {"\t", "\n", "\f", "\r"} |->
        IF ch = "\t" THEN 9
        ELSE IF ch = "\n" THEN 10
        ELSE IF ch = "\f" THEN 12
        ELSE IF ch = "\r" THEN 13
        ELSE IF \E i \in 1..Len(AsciiLow) : SubSeq(AsciiLow, i, i) = ch
        THEN 31 + CHOOSE i \in 1..Len(AsciiLow) : SubSeq(AsciiLow, i, i) = ch
        ELSE 96 + CHOOSE i \in 1..Len(AsciiHigh) : SubSeq(AsciiHigh, i, i) = ch]

\* the text an ASCII string literal of the source denotes
Str(s) == [i \in 1..Len(s) |-> CodeUnitOf[SubSeq(s, i, i)]]

\* null / undefined, for text-valued cells: no text holds a negative code unit
NoText == <<-1>>

-----------------------------------------------------------------------------
(* Program constants *)

NewChatTitle == Str("New Chat")
TitleLimit == 30
Ellipsis == Str("...")
Greeting == Str("Hi! I'm Helper, created by Dhruv Gowda. I'm here to help you with any questions or tasks you have. What can I assist you with today?")
ClientFallbackText == Str("I'm having some trouble right now, but I'm still here to help! What would you like to know or discuss?")
ClientDefaultText == Str("I'm here to help! What would you like to know or discuss?")
ProxyFallbackText == Str("I'm having trouble connecting right now, but I'm still here to help! What would you like to know or discuss?")

-----------------------------------------------------------------------------
(* Input universes *)

Text30 == Str("abcdefghijklmnopqrstuvwxyz0123")
Text31 == Str("abcdefghijklmnopqrstuvwxyz01234")

\* what the user may type into the textarea
EmailText == Str("Please SEND an Email to Jane Doe about the meeting.")
BlankText == Str(" \t\f")

\* a message of one EM SPACE, and email requests whose "to" is followed by an EM
\* SPACE, whose "send" and "email" are on two lines (U+2028), and whose capital
\* sigma ends a word
EmSpaceText == <<8195>>
EmSpaceEmailText == Str("send email to") \o <<8195>> \o Str("Bob") \o <<12288>>
TwoLineEmailText == Str("send") \o <<8232>> \o Str("email to Bob")
SigmaEmailText == Str("SEND EMAIL TO ") \o <<927, 916, 927, 931>>
HelloText == Str("Hello")
Texts ==
    {<<>>, BlankText, EmSpaceText, HelloText, Text30, Text31, EmailText, EmSpaceEmailText,
     TwoLineEmailText, SigmaEmailText}

\* the data URI a picked image file is read into
ImageData == "data:image/png;base64,AAAA"

\* what handleSendMessage may find in the textarea and the preview when it runs
Submissions ==
    {<<<<>>, NULL>>, <<BlankText, NULL>>, <<<<>>, ImageData>>, <<HelloText, NULL>>,
     <<Text30, NULL>>, <<Text31, NULL>>, <<EmailText, NULL>>}

\* subject and body the user may have entered in the composer
ComposerInputs ==
    {<<<<>>, Str("See you at 5")>>, <<Str("Meeting"), <<160>>>>,
     <<Str("Meeting"), Str("See you at 5")>>}

\* the signed-in identity, when there is one
UserId == "u1"

\* another account that owns rows of chat_histories
OtherUserId == "u2"

-----------------------------------------------------------------------------
(* String helpers (JavaScript String methods) *)

Min(a, b) == IF a < b THEN a ELSE b

\* String.prototype.slice(0, n) for n >= 0
Slice0(s, n) == SubSeq(s, 1, Min(n, Len(s)))

\* the code unit at index i - 1
CharCodeAt(s, i) == s[i]

\* WhiteSpace and LineTerminator of ECMAScript, which trim() and the regex \s share:
\* tab, line feed, vertical tab, form feed, carriage return, space, U+00A0, U+1680,
\* U+2000..U+200A, U+2028, U+2029, U+202F, U+205F, U+3000 and U+FEFF
IsWhitespace(u) ==
    \/ u \in {9, 10, 11, 12, 13, 32, 160, 5760, 8232, 8233, 8239, 8287, 12288, 65279}
    \/ (8192 <= u /\ u <= 8202)

\* mutant of Trim: the text is taken as typed
Trim_Identity(s) == s

\* String.prototype.trim(): drop leading and trailing whitespace
Trim(s) ==
    LET nonWs == {i \in 1..Len(s) : ~IsWhitespace(CharCodeAt(s, i))}
        lo == CHOOSE i \in nonWs : \A j \in nonWs : i <= j
        hi == CHOOSE i \in nonWs : \A j \in nonWs : j <= i
    IN  IF nonWs = {} THEN <<>> ELSE SubSeq(s, lo, hi)

\* mutant of DeriveTitle: the ellipsis is added from 30 characters on
DeriveTitle_OffByOne(title, msg) ==
    IF title = NewChatTitle
    THEN Slice0(msg, TitleLimit) \o (IF Len(msg) >= TitleLimit THEN Ellipsis ELSE <<>>)
    ELSE title

\* the title expression of handleSendMessage
DeriveTitle(title, msg) ==
    IF title = NewChatTitle
    THEN Slice0(msg, TitleLimit) \o (IF Len(msg) > TitleLimit THEN Ellipsis ELSE <<>>)
    ELSE title

-----------------------------------------------------------------------------
(* Sequence helpers (Array methods) *)

IdsOf(convs) == {convs[i].id : i \in 1..Len(convs)}

\* Array.prototype.find: <<first match>>, or <<>> for undefined
FindConv(convs, id) ==
    IF \E i \in 1..Len(convs) : convs[i].id = id
    THEN <<convs[CHOOSE i \in 1..Len(convs) :
                   /\ convs[i].id = id
                   /\ \A j \in 1..(i - 1) : convs[j].id # id]>>
    ELSE <<>>

-----------------------------------------------------------------------------
(* Records *)

\* interface Message (id and timestamp are fresh values no handler reads)
Message(role, content, image) == [role |-> role, content |-> content, image |-> image]

\* the conversation createNewConversation builds
NewConversation(id) ==
    [id |-> id, title |-> NewChatTitle, messages |-> <<Message("ai", Greeting, NULL)>>]

\* JSON.stringify / JSON.parse: a JSON text is the one-element tuple <<[json |-> v]>>,
\* which no array of messages or conversations equals
JSONStringify(v) == <<[json |-> v]>>
\* typeof v === 'string', for v a JSON text or an array of records
IsJSONString(v) == Len(v) = 1 /\ DOMAIN v[1] = {"json"}
JSONParse(s) == s[1].json

-----------------------------------------------------------------------------
(* Email-intent classification of handleSendMessage *)

\* the code points of a text: a high surrogate followed by a low one is one code
\* point, every other code unit stands for itself
IsHighSurrogate(u) == 55296 <= u /\ u <= 56319
IsLowSurrogate(u) == 56320 <= u /\ u <= 57343

RECURSIVE CodePoints(_)
CodePoints(s) ==
    IF s = <<>> THEN <<>>
    ELSE IF Len(s) >= 2 /\ IsHighSurrogate(s[1]) /\ IsLowSurrogate(s[2])
    THEN <<65536 + (s[1] - 55296) * 1024 + (s[2] - 56320)>> \o CodePoints(SubSeq(s, 3, Len(s)))
    ELSE <<s[1]>> \o CodePoints(Tail(s))

\* the code units of one code point
CodeUnits(c) ==
    IF c < 65536 THEN <<c>>
    ELSE <<55296 + ((c - 65536) \div 1024), 56320 + ((c - 65536) % 1024)>>

\* the simple lower-case mappings of the Unicode Character Database as runs
\* <<first, last, step, delta>>: every step-th code point from first to last has
\* the lower case code point + delta
LowerRanges ==
    {<<65, 90, 1, 32>>, <<192, 214, 1, 32>>, <<216, 222, 1, 32>>, <<256, 302, 2, 1>>,
     <<306, 310, 2, 1>>, <<313, 327, 2, 1>>, <<330, 374, 2, 1>>, <<376, 376, 1, -121>>,
     <<377, 381, 2, 1>>, <<385, 385, 1, 210>>, <<386, 388, 2, 1>>, <<390, 390, 1, 206>>,
     <<391, 391, 1, 1>>, <<393, 394, 1, 205>>, <<395, 395, 1, 1>>, <<398, 398, 1, 79>>,
     <<399, 399, 1, 202>>, <<400, 400, 1, 203>>, <<401, 401, 1, 1>>, <<403, 403, 1, 205>>,
     <<404, 404, 1, 207>>, <<406, 406, 1, 211>>, <<407, 407, 1, 209>>, <<408, 408, 1, 1>>,
     <<412, 412, 1, 211>>, <<413, 413, 1, 213>>, <<415, 415, 1, 214>>, <<416, 420, 2, 1>>,
     <<422, 422, 1, 218>>, <<423, 423, 1, 1>>, <<425, 425, 1, 218>>, <<428, 428, 1, 1>>,
     <<430, 430, 1, 218>>, <<431, 431, 1, 1>>, <<433, 434, 1, 217>>, <<435, 437, 2, 1>>,
     <<439, 439, 1, 219>>, <<440, 440, 1, 1>>, <<444, 444, 1, 1>>, <<452, 452, 1, 2>>,
     <<453, 453, 1, 1>>, <<455, 455, 1, 2>>, <<456, 456, 1, 1>>, <<458, 458, 1, 2>>,
     <<459, 475, 2, 1>>, <<478, 494, 2, 1>>, <<497, 497, 1, 2>>, <<498, 500, 2, 1>>,
     <<502, 502, 1, -97>>, <<503, 503, 1, -56>>, <<504, 542, 2, 1>>, <<544, 544, 1, -130>>,
     <<546, 562, 2, 1>>, <<570, 570, 1, 10795>>, <<571, 571, 1, 1>>, <<573, 573, 1, -163>>,
     <<574, 574, 1, 10792>>, <<577, 577, 1, 1>>, <<579, 579, 1, -195>>, <<580, 580, 1, 69>>,
     <<581, 581, 1, 71>>, <<582, 590, 2, 1>>, <<880, 882, 2, 1>>, <<886, 886, 1, 1>>,
     <<895, 895, 1, 116>>, <<902, 902, 1, 38>>, <<904, 906, 1, 37>>, <<908, 908, 1, 64>>,
     <<910, 911, 1, 63>>, <<913, 929, 1, 32>>, <<931, 939, 1, 32>>, <<975, 975, 1, 8>>,
     <<984, 1006, 2, 1>>, <<1012, 1012, 1, -60>>, <<1015, 1015, 1, 1>>, <<1017, 1017, 1, -7>>,
     <<1018, 1018, 1, 1>>, <<1021, 1023, 1, -130>>, <<1024, 1039, 1, 80>>,
     <<1040, 1071, 1, 32>>, <<1120, 1152, 2, 1>>, <<1162, 1214, 2, 1>>, <<1216, 1216, 1, 15>>,
     <<1217, 1229, 2, 1>>, <<1232, 1326, 2, 1>>, <<1329, 1366, 1, 48>>,
     <<4256, 4293, 1, 7264>>, <<4295, 4295, 1, 7264>>, <<4301, 4301, 1, 7264>>,
     <<5024, 5103, 1, 38864>>, <<5104, 5109, 1, 8>>, <<7305, 7305, 1, 1>>,
     <<7312, 7354, 1, -3008>>, <<7357, 7359, 1, -3008>>, <<7680, 7828, 2, 1>>,
     <<7838, 7838, 1, -7615>>, <<7840, 7934, 2, 1>>, <<7944, 7951, 1, -8>>,
     <<7960, 7965, 1, -8>>, <<7976, 7983, 1, -8>>, <<7992, 7999, 1, -8>>,
     <<8008, 8013, 1, -8>>, <<8025, 8031, 2, -8>>, <<8040, 8047, 1, -8>>,
     <<8072, 8079, 1, -8>>, <<8088, 8095, 1, -8>>, <<8104, 8111, 1, -8>>,
     <<8120, 8121, 1, -8>>, <<8122, 8123, 1, -74>>, <<8124, 8124, 1, -9>>,
     <<8136, 8139, 1, -86>>, <<8140, 8140, 1, -9>>, <<8152, 8153, 1, -8>>,
     <<8154, 8155, 1, -100>>, <<8168, 8169, 1, -8>>, <<8170, 8171, 1, -112>>,
     <<8172, 8172, 1, -7>>, <<8184, 8185, 1, -128>>, <<8186, 8187, 1, -126>>,
     <<8188, 8188, 1, -9>>, <<8486, 8486, 1, -7517>>, <<8490, 8490, 1, -8383>>,
     <<8491, 8491, 1, -8262>>, <<8498, 8498, 1, 28>>, <<8544, 8559, 1, 16>>,
     <<8579, 8579, 1, 1>>, <<9398, 9423, 1, 26>>, <<11264, 11311, 1, 48>>,
     <<11360, 11360, 1, 1>>, <<11362, 11362, 1, -10743>>, <<11363, 11363, 1, -3814>>,
     <<11364, 11364, 1, -10727>>, <<11367, 11371, 2, 1>>, <<11373, 11373, 1, -10780>>,
     <<11374, 11374, 1, -10749>>, <<11375, 11375, 1, -10783>>, <<11376, 11376, 1, -10782>>,
     <<11378, 11378, 1, 1>>, <<11381, 11381, 1, 1>>, <<11390, 11391, 1, -10815>>,
     <<11392, 11490, 2, 1>>, <<11499, 11501, 2, 1>>, <<11506, 11506, 1, 1>>,
     <<42560, 42604, 2, 1>>, <<42624, 42650, 2, 1>>, <<42786, 42798, 2, 1>>,
     <<42802, 42862, 2, 1>>, <<42873, 42875, 2, 1>>, <<42877, 42877, 1, -35332>>,
     <<42878, 42886, 2, 1>>, <<42891, 42891, 1, 1>>, <<42893, 42893, 1, -42280>>,
     <<42896, 42898, 2, 1>>, <<42902, 42920, 2, 1>>, <<42922, 42922, 1, -42308>>,
     <<42923, 42923, 1, -42319>>, <<42924, 42924, 1, -42315>>, <<42925, 42925, 1, -42305>>,
     <<42926, 42926, 1, -42308>>, <<42928, 42928, 1, -42258>>, <<42929, 42929, 1, -42282>>,
     <<42930, 42930, 1, -42261>>, <<42931, 42931, 1, 928>>, <<42932, 42946, 2, 1>>,
     <<42948, 42948, 1, -48>>, <<42949, 42949, 1, -42307>>, <<42950, 42950, 1, -35384>>,
     <<42951, 42953, 2, 1>>, <<42955, 42955, 1, -42343>>, <<42956, 42970, 2, 1>>,
     <<42972, 42972, 1, -42561>>, <<42997, 42997, 1, 1>>, <<65313, 65338, 1, 32>>,
     <<66560, 66599, 1, 40>>, <<66736, 66771, 1, 40>>, <<66928, 66938, 1, 39>>,
     <<66940, 66954, 1, 39>>, <<66956, 66962, 1, 39>>, <<66964, 66965, 1, 39>>,
     <<68736, 68786, 1, 64>>, <<68944, 68965, 1, 32>>, <<71840, 71871, 1, 32>>,
     <<93760, 93791, 1, 32>>, <<93856, 93880, 1, 27>>, <<125184, 125217, 1, 34>>}

\* the code points with the property Cased, as runs <<first, last>>
CasedRanges ==
    {<<65, 90>>, <<97, 122>>, <<170, 170>>, <<181, 181>>, <<186, 186>>, <<192, 214>>,
     <<216, 246>>, <<248, 442>>, <<444, 447>>, <<452, 659>>, <<662, 696>>, <<704, 705>>,
     <<736, 740>>, <<837, 837>>, <<880, 883>>, <<886, 887>>, <<890, 893>>, <<895, 895>>,
     <<902, 902>>, <<904, 906>>, <<908, 908>>, <<910, 929>>, <<931, 1013>>, <<1015, 1153>>,
     <<1162, 1327>>, <<1329, 1366>>, <<1376, 1416>>, <<4256, 4293>>, <<4295, 4295>>,
     <<4301, 4301>>, <<4304, 4346>>, <<4348, 4351>>, <<5024, 5109>>, <<5112, 5117>>,
     <<7296, 7306>>, <<7312, 7354>>, <<7357, 7359>>, <<7424, 7615>>, <<7680, 7957>>,
     <<7960, 7965>>, <<7968, 8005>>, <<8008, 8013>>, <<8016, 8023>>, <<8025, 8025>>,
     <<8027, 8027>>, <<8029, 8029>>, <<8031, 8061>>, <<8064, 8116>>, <<8118, 8124>>,
     <<8126, 8126>>, <<8130, 8132>>, <<8134, 8140>>, <<8144, 8147>>, <<8150, 8155>>,
     <<8160, 8172>>, <<8178, 8180>>, <<8182, 8188>>, <<8305, 8305>>, <<8319, 8319>>,
     <<8336, 8348>>, <<8450, 8450>>, <<8455, 8455>>, <<8458, 8467>>, <<8469, 8469>>,
     <<8473, 8477>>, <<8484, 8484>>, <<8486, 8486>>, <<8488, 8488>>, <<8490, 8493>>,
     <<8495, 8500>>, <<8505, 8505>>, <<8508, 8511>>, <<8517, 8521>>, <<8526, 8526>>,
     <<8544, 8575>>, <<8579, 8580>>, <<9398, 9449>>, <<11264, 11492>>, <<11499, 11502>>,
     <<11506, 11507>>, <<11520, 11557>>, <<11559, 11559>>, <<11565, 11565>>, <<42560, 42605>>,
     <<42624, 42653>>, <<42786, 42887>>, <<42891, 42894>>, <<42896, 42972>>, <<42993, 42998>>,
     <<43000, 43002>>, <<43824, 43866>>, <<43868, 43881>>, <<43888, 43967>>, <<64256, 64262>>,
     <<64275, 64279>>, <<65313, 65338>>, <<65345, 65370>>, <<66560, 66639>>, <<66736, 66771>>,
     <<66776, 66811>>, <<66928, 66938>>, <<66940, 66954>>, <<66956, 66962>>, <<66964, 66965>>,
     <<66967, 66977>>, <<66979, 66993>>, <<66995, 67001>>, <<67003, 67004>>, <<67456, 67456>>,
     <<67459, 67461>>, <<67463, 67504>>, <<67506, 67514>>, <<68736, 68786>>, <<68800, 68850>>,
     <<68944, 68965>>, <<68976, 68997>>, <<71840, 71903>>, <<93760, 93823>>, <<93856, 93880>>,
     <<93883, 93907>>, <<119808, 119892>>, <<119894, 119964>>, <<119966, 119967>>,
     <<119970, 119970>>, <<119973, 119974>>, <<119977, 119980>>, <<119982, 119993>>,
     <<119995, 119995>>, <<119997, 120003>>, <<120005, 120069>>, <<120071, 120074>>,
     <<120077, 120084>>, <<120086, 120092>>, <<120094, 120121>>, <<120123, 120126>>,
     <<120128, 120132>>, <<120134, 120134>>, <<120138, 120144>>, <<120146, 120485>>,
     <<120488, 120512>>, <<120514, 120538>>, <<120540, 120570>>, <<120572, 120596>>,
     <<120598, 120628>>, <<120630, 120654>>, <<120656, 120686>>, <<120688, 120712>>,
     <<120714, 120744>>, <<120746, 120770>>, <<120772, 120779>>, <<122624, 122633>>,
     <<122635, 122654>>, <<122661, 122666>>, <<122928, 122989>>, <<125184, 125251>>,
     <<127280, 127305>>, <<127312, 127337>>, <<127344, 127369>>}

\* the code points with the property Case_Ignorable, as runs <<first, last>>
CaseIgnorableRanges ==
    {<<39, 39>>, <<46, 46>>, <<58, 58>>, <<94, 94>>, <<96, 96>>, <<168, 168>>, <<173, 173>>,
     <<175, 175>>, <<180, 180>>, <<183, 184>>, <<688, 879>>, <<884, 885>>, <<890, 890>>,
     <<900, 901>>, <<903, 903>>, <<1155, 1161>>, <<1369, 1369>>, <<1375, 1375>>,
     <<1425, 1469>>, <<1471, 1471>>, <<1473, 1474>>, <<1476, 1477>>, <<1479, 1479>>,
     <<1524, 1524>>, <<1536, 1541>>, <<1552, 1562>>, <<1564, 1564>>, <<1600, 1600>>,
     <<1611, 1631>>, <<1648, 1648>>, <<1750, 1757>>, <<1759, 1768>>, <<1770, 1773>>,
     <<1807, 1807>>, <<1809, 1809>>, <<1840, 1866>>, <<1958, 1968>>, <<2027, 2037>>,
     <<2042, 2042>>, <<2045, 2045>>, <<2070, 2093>>, <<2137, 2139>>, <<2184, 2184>>,
     <<2192, 2193>>, <<2199, 2207>>, <<2249, 2306>>, <<2362, 2362>>, <<2364, 2364>>,
     <<2369, 2376>>, <<2381, 2381>>, <<2385, 2391>>, <<2402, 2403>>, <<2417, 2417>>,
     <<2433, 2433>>, <<2492, 2492>>, <<2497, 2500>>, <<2509, 2509>>, <<2530, 2531>>,
     <<2558, 2558>>, <<2561, 2562>>, <<2620, 2620>>, <<2625, 2626>>, <<2631, 2632>>,
     <<2635, 2637>>, <<2641, 2641>>, <<2672, 2673>>, <<2677, 2677>>, <<2689, 2690>>,
     <<2748, 2748>>, <<2753, 2757>>, <<2759, 2760>>, <<2765, 2765>>, <<2786, 2787>>,
     <<2810, 2815>>, <<2817, 2817>>, <<2876, 2876>>, <<2879, 2879>>, <<2881, 2884>>,
     <<2893, 2893>>, <<2901, 2902>>, <<2914, 2915>>, <<2946, 2946>>, <<3008, 3008>>,
     <<3021, 3021>>, <<3072, 3072>>, <<3076, 3076>>, <<3132, 3132>>, <<3134, 3136>>,
     <<3142, 3144>>, <<3146, 3149>>, <<3157, 3158>>, <<3170, 3171>>, <<3201, 3201>>,
     <<3260, 3260>>, <<3263, 3263>>, <<3270, 3270>>, <<3276, 3277>>, <<3298, 3299>>,
     <<3328, 3329>>, <<3387, 3388>>, <<3393, 3396>>, <<3405, 3405>>, <<3426, 3427>>,
     <<3457, 3457>>, <<3530, 3530>>, <<3538, 3540>>, <<3542, 3542>>, <<3633, 3633>>,
     <<3636, 3642>>, <<3654, 3662>>, <<3761, 3761>>, <<3764, 3772>>, <<3782, 3782>>,
     <<3784, 3790>>, <<3864, 3865>>, <<3893, 3893>>, <<3895, 3895>>, <<3897, 3897>>,
     <<3953, 3966>>, <<3968, 3972>>, <<3974, 3975>>, <<3981, 3991>>, <<3993, 4028>>,
     <<4038, 4038>>, <<4141, 4144>>, <<4146, 4151>>, <<4153, 4154>>, <<4157, 4158>>,
     <<4184, 4185>>, <<4190, 4192>>, <<4209, 4212>>, <<4226, 4226>>, <<4229, 4230>>,
     <<4237, 4237>>, <<4253, 4253>>, <<4348, 4348>>, <<4957, 4959>>, <<5906, 5908>>,
     <<5938, 5939>>, <<5970, 5971>>, <<6002, 6003>>, <<6068, 6069>>, <<6071, 6077>>,
     <<6086, 6086>>, <<6089, 6099>>, <<6103, 6103>>, <<6109, 6109>>, <<6155, 6159>>,
     <<6211, 6211>>, <<6277, 6278>>, <<6313, 6313>>, <<6432, 6434>>, <<6439, 6440>>,
     <<6450, 6450>>, <<6457, 6459>>, <<6679, 6680>>, <<6683, 6683>>, <<6742, 6742>>,
     <<6744, 6750>>, <<6752, 6752>>, <<6754, 6754>>, <<6757, 6764>>, <<6771, 6780>>,
     <<6783, 6783>>, <<6823, 6823>>, <<6832, 6877>>, <<6880, 6891>>, <<6912, 6915>>,
     <<6964, 6964>>, <<6966, 6970>>, <<6972, 6972>>, <<6978, 6978>>, <<7019, 7027>>,
     <<7040, 7041>>, <<7074, 7077>>, <<7080, 7081>>, <<7083, 7085>>, <<7142, 7142>>,
     <<7144, 7145>>, <<7149, 7149>>, <<7151, 7153>>, <<7212, 7219>>, <<7222, 7223>>,
     <<7288, 7293>>, <<7376, 7378>>, <<7380, 7392>>, <<7394, 7400>>, <<7405, 7405>>,
     <<7412, 7412>>, <<7416, 7417>>, <<7468, 7530>>, <<7544, 7544>>, <<7579, 7679>>,
     <<8125, 8125>>, <<8127, 8129>>, <<8141, 8143>>, <<8157, 8159>>, <<8173, 8175>>,
     <<8189, 8190>>, <<8203, 8207>>, <<8216, 8217>>, <<8228, 8228>>, <<8231, 8231>>,
     <<8234, 8238>>, <<8288, 8292>>, <<8294, 8303>>, <<8305, 8305>>, <<8319, 8319>>,
     <<8336, 8348>>, <<8400, 8432>>, <<11388, 11389>>, <<11503, 11505>>, <<11631, 11631>>,
     <<11647, 11647>>, <<11744, 11775>>, <<11823, 11823>>, <<12293, 12293>>, <<12330, 12333>>,
     <<12337, 12341>>, <<12347, 12347>>, <<12441, 12446>>, <<12540, 12542>>, <<40981, 40981>>,
     <<42232, 42237>>, <<42508, 42508>>, <<42607, 42610>>, <<42612, 42621>>, <<42623, 42623>>,
     <<42652, 42655>>, <<42736, 42737>>, <<42752, 42785>>, <<42864, 42864>>, <<42888, 42890>>,
     <<42993, 42996>>, <<43000, 43001>>, <<43010, 43010>>, <<43014, 43014>>, <<43019, 43019>>,
     <<43045, 43046>>, <<43052, 43052>>, <<43204, 43205>>, <<43232, 43249>>, <<43263, 43263>>,
     <<43302, 43309>>, <<43335, 43345>>, <<43392, 43394>>, <<43443, 43443>>, <<43446, 43449>>,
     <<43452, 43453>>, <<43471, 43471>>, <<43493, 43494>>, <<43561, 43566>>, <<43569, 43570>>,
     <<43573, 43574>>, <<43587, 43587>>, <<43596, 43596>>, <<43632, 43632>>, <<43644, 43644>>,
     <<43696, 43696>>, <<43698, 43700>>, <<43703, 43704>>, <<43710, 43711>>, <<43713, 43713>>,
     <<43741, 43741>>, <<43756, 43757>>, <<43763, 43764>>, <<43766, 43766>>, <<43867, 43871>>,
     <<43881, 43883>>, <<44005, 44005>>, <<44008, 44008>>, <<44013, 44013>>, <<64286, 64286>>,
     <<64434, 64450>>, <<65024, 65039>>, <<65043, 65043>>, <<65056, 65071>>, <<65106, 65106>>,
     <<65109, 65109>>, <<65279, 65279>>, <<65287, 65287>>, <<65294, 65294>>, <<65306, 65306>>,
     <<65342, 65342>>, <<65344, 65344>>, <<65392, 65392>>, <<65438, 65439>>, <<65507, 65507>>,
     <<65529, 65531>>, <<66045, 66045>>, <<66272, 66272>>, <<66422, 66426>>, <<67456, 67461>>,
     <<67463, 67504>>, <<67506, 67514>>, <<68097, 68099>>, <<68101, 68102>>, <<68108, 68111>>,
     <<68152, 68154>>, <<68159, 68159>>, <<68325, 68326>>, <<68900, 68903>>, <<68942, 68942>>,
     <<68969, 68973>>, <<68975, 68975>>, <<69291, 69292>>, <<69317, 69317>>, <<69370, 69375>>,
     <<69446, 69456>>, <<69506, 69509>>, <<69633, 69633>>, <<69688, 69702>>, <<69744, 69744>>,
     <<69747, 69748>>, <<69759, 69761>>, <<69811, 69814>>, <<69817, 69818>>, <<69821, 69821>>,
     <<69826, 69826>>, <<69837, 69837>>, <<69888, 69890>>, <<69927, 69931>>, <<69933, 69940>>,
     <<70003, 70003>>, <<70016, 70017>>, <<70070, 70078>>, <<70089, 70092>>, <<70095, 70095>>,
     <<70191, 70193>>, <<70196, 70196>>, <<70198, 70199>>, <<70206, 70206>>, <<70209, 70209>>,
     <<70367, 70367>>, <<70371, 70378>>, <<70400, 70401>>, <<70459, 70460>>, <<70464, 70464>>,
     <<70502, 70508>>, <<70512, 70516>>, <<70587, 70592>>, <<70606, 70606>>, <<70608, 70608>>,
     <<70610, 70610>>, <<70625, 70626>>, <<70712, 70719>>, <<70722, 70724>>, <<70726, 70726>>,
     <<70750, 70750>>, <<70835, 70840>>, <<70842, 70842>>, <<70847, 70848>>, <<70850, 70851>>,
     <<71090, 71093>>, <<71100, 71101>>, <<71103, 71104>>, <<71132, 71133>>, <<71219, 71226>>,
     <<71229, 71229>>, <<71231, 71232>>, <<71339, 71339>>, <<71341, 71341>>, <<71344, 71349>>,
     <<71351, 71351>>, <<71453, 71453>>, <<71455, 71455>>, <<71458, 71461>>, <<71463, 71467>>,
     <<71727, 71735>>, <<71737, 71738>>, <<71995, 71996>>, <<71998, 71998>>, <<72003, 72003>>,
     <<72148, 72151>>, <<72154, 72155>>, <<72160, 72160>>, <<72193, 72202>>, <<72243, 72248>>,
     <<72251, 72254>>, <<72263, 72263>>, <<72273, 72278>>, <<72281, 72283>>, <<72330, 72342>>,
     <<72344, 72345>>, <<72544, 72544>>, <<72546, 72548>>, <<72550, 72550>>, <<72752, 72758>>,
     <<72760, 72765>>, <<72767, 72767>>, <<72850, 72871>>, <<72874, 72880>>, <<72882, 72883>>,
     <<72885, 72886>>, <<73009, 73014>>, <<73018, 73018>>, <<73020, 73021>>, <<73023, 73029>>,
     <<73031, 73031>>, <<73104, 73105>>, <<73109, 73109>>, <<73111, 73111>>, <<73177, 73177>>,
     <<73459, 73460>>, <<73472, 73473>>, <<73526, 73530>>, <<73536, 73536>>, <<73538, 73538>>,
     <<73562, 73562>>, <<78896, 78912>>, <<78919, 78933>>, <<90398, 90409>>, <<90413, 90415>>,
     <<92912, 92916>>, <<92976, 92982>>, <<92992, 92995>>, <<93504, 93506>>, <<93547, 93548>>,
     <<94031, 94031>>, <<94095, 94111>>, <<94176, 94177>>, <<94179, 94180>>, <<94194, 94195>>,
     <<110576, 110579>>, <<110581, 110587>>, <<110589, 110590>>, <<113821, 113822>>,
     <<113824, 113827>>, <<118528, 118573>>, <<118576, 118598>>, <<119143, 119145>>,
     <<119155, 119170>>, <<119173, 119179>>, <<119210, 119213>>, <<119362, 119364>>,
     <<121344, 121398>>, <<121403, 121452>>, <<121461, 121461>>, <<121476, 121476>>,
     <<121499, 121503>>, <<121505, 121519>>, <<122880, 122886>>, <<122888, 122904>>,
     <<122907, 122913>>, <<122915, 122916>>, <<122918, 122922>>, <<122928, 122989>>,
     <<123023, 123023>>, <<123184, 123197>>, <<123566, 123566>>, <<123628, 123631>>,
     <<124139, 124143>>, <<124398, 124399>>, <<124643, 124643>>, <<124646, 124646>>,
     <<124654, 124655>>, <<124661, 124661>>, <<124671, 124671>>, <<125136, 125142>>,
     <<125252, 125259>>, <<127995, 127999>>, <<917505, 917505>>, <<917536, 917631>>,
     <<917760, 917999>>}

IsCased(c) == \E r \in CasedRanges : r[1] <= c /\ c <= r[2]
IsCaseIgnorable(c) == \E r \in CaseIgnorableRanges : r[1] <= c /\ c <= r[2]

\* the lower case of one code point by the simple mappings
LowerChar(c) ==
    LET rs == {r \in LowerRanges : r[1] <= c /\ c <= r[2] /\ (c - r[1]) % r[3] = 0}
    IN  IF rs = {} THEN c ELSE c + (CHOOSE r \in rs : TRUE)[4]

\* the condition Final_Sigma at position i: going back over case-ignorable code
\* points a cased one is found, and going forward none is
BeforeIsCased(cp, i) ==
    \E j \in 1..(i - 1) :
        /\ ~IsCaseIgnorable(cp[j]) /\ IsCased(cp[j])
        /\ \A k \in (j + 1)..(i - 1) : IsCaseIgnorable(cp[k])

AfterIsCased(cp, i) ==
    \E j \in (i + 1)..Len(cp) :
        /\ ~IsCaseIgnorable(cp[j]) /\ IsCased(cp[j])
        /\ \A k \in (i + 1)..(j - 1) : IsCaseIgnorable(cp[k])

\* the lower case of the code point at position i: U+0130 becomes i and a
\* combining dot, a capital sigma the final or the non-final small sigma
LowerAt(cp, i) ==
    IF cp[i] = 304 THEN <<105, 775>>
    ELSE IF cp[i] = 931
    THEN (IF BeforeIsCased(cp, i) /\ ~AfterIsCased(cp, i) THEN <<962>> ELSE <<963>>)
    ELSE CodeUnits(LowerChar(cp[i]))

RECURSIVE LowerFrom(_, _)
LowerFrom(cp, i) ==
    IF i > Len(cp) THEN <<>> ELSE LowerAt(cp, i) \o LowerFrom(cp, i + 1)

\* String.prototype.toLowerCase
ToLowerCase(s) == LowerFrom(CodePoints(s), 1)

\* String.prototype.includes
Includes(s, sub) ==
    \E i \in 1..(Len(s) + 1 - Len(sub)) : SubSeq(s, i, i + Len(sub) - 1) = sub

\* the letters of the pattern
PatternSend == Str("send")
PatternEmail == Str("email")
PatternTo == Str("to")
Dot == 46

\* a lower-case ASCII letter p of the pattern matches code unit u under the /i
\* flag: the two are compared in upper case, and without the u flag no
\* character beyond ASCII is mapped to an ASCII one
LetterMatches(u, p) == u = p \/ u = p - 32

\* sub (lower-case ASCII letters) occurs in s at position i, ignoring case
OccursAt(s, sub, i) ==
    /\ i >= 1
    /\ i + Len(sub) - 1 <= Len(s)
    /\ \A p \in 1..Len(sub) : LetterMatches(CharCodeAt(s, i + p - 1), sub[p])

\* what the regex '.' does not match: line feed, carriage return, U+2028, U+2029
IsLineTerminator(u) == u \in {10, 13, 8232, 8233}

\* '.*' can cover positions a..b
DotStarCovers(s, a, b) == \A p \in a..b : ~IsLineTerminator(CharCodeAt(s, p))

\* end of the whitespace run that starts at a (a - 1 when there is none)
WsRunEnd(s, a) ==
    CHOOSE r \in (a - 1)..Len(s) :
        /\ \A p \in a..r : IsWhitespace(CharCodeAt(s, p))
        /\ r = Len(s) \/ ~IsWhitespace(CharCodeAt(s, r + 1))

\* where the capture group of 'to\s+([^.]+)' starts when 'to' is at k; 0 = no match.
\* '\s+' is greedy and gives back one character when nothing else can be captured.
GroupStart(s, k) ==
    LET a == k + 2
        r == WsRunEnd(s, a)
    IN  IF r < a THEN 0
        ELSE IF r + 1 <= Len(s) /\ CharCodeAt(s, r + 1) # Dot THEN r + 1
        ELSE IF r >= a + 1 THEN r
        ELSE 0

\* greedy end of '[^.]+' started at g
GroupEnd(s, g) ==
    CHOOSE e \in g..Len(s) :
        /\ \A p \in g..e : CharCodeAt(s, p) # Dot
        /\ e = Len(s) \/ CharCodeAt(s, e + 1) = Dot

\* positions of 'to' that complete a match whose 'email' is at j
ToPositions(s, j) ==
    {k \in (j + 5)..Len(s) :
        /\ OccursAt(s, PatternTo, k)
        /\ DotStarCovers(s, j + 5, k - 1)
        /\ GroupStart(s, k) # 0}

\* positions of 'email' that continue to a match whose 'send' is at i
EmailPositions(s, i) ==
    {j \in (i + 4)..Len(s) :
        /\ OccursAt(s, PatternEmail, j)
        /\ DotStarCovers(s, i + 4, j - 1)
        /\ ToPositions(s, j) # {}}

\* positions of 'send' at which the whole pattern matches
SendPositions(s) ==
    {i \in 1..Len(s) : OccursAt(s, PatternSend, i) /\ EmailPositions(s, i) # {}}

SetMin(S) == CHOOSE x \in S : \A y \in S : x <= y
SetMax(S) == CHOOSE x \in S : \A y \in S : y <= x

\* message.match(/send.*email.*to\s+([^.]+)/i): <<capture group 1>>, or <<>> for
\* null.  The match starts at the leftmost 'send'; each '.*' is greedy.
EmailMatch(s) ==
    IF SendPositions(s) = {} THEN <<>>
    ELSE LET i == SetMin(SendPositions(s))
             j == SetMax(EmailPositions(s, i))
             k == SetMax(ToPositions(s, j))
             g == GroupStart(s, k)
         IN  <<SubSeq(s, g, GroupEnd(s, g))>>

\* the condition guarding the email branch
IsEmailRequest(msg) ==
    Includes(ToLowerCase(msg), PatternSend) /\ Includes(ToLowerCase(msg), PatternEmail)

\* the name handleSendMessage passes to searchDirectory: <<contactName>>, or <<>>
\* when the message does not take the email branch
ContactNameOf(msg) ==
    IF IsEmailRequest(msg) /\ EmailMatch(msg) # <<>>
    THEN <<Trim(EmailMatch(msg)[1])>>
    ELSE <<>>

-----------------------------------------------------------------------------
(* The chat_histories table and the statements the client runs against it *)

\* columns of chat_histories that carry a PRIMARY KEY or UNIQUE constraint
ChatHistoriesUniqueColumns == {"id"}

\* now() of the database: later than every stored updated_at
DbNow(table) ==
    LET stamps == {table[i].updated_at : i \in 1..Len(table)}
    IN  IF stamps = {} THEN 1
        ELSE 1 + CHOOSE m \in stamps : \A t \in stamps : t <= m

\* upsert(row, {onConflict}):  INSERT ... ON CONFLICT (onConflict) DO UPDATE.
\* The statement needs a unique index on the conflict column; without one the
\* database rejects it and stores nothing.
Upsert(table, row, onConflict) ==
    IF onConflict \notin ChatHistoriesUniqueColumns
    THEN [error |-> TRUE, table |-> table]
    ELSE IF \E i \in 1..Len(table) : table[i][onConflict] = row[onConflict]
    THEN [error |-> FALSE,
          table |-> [i \in 1..Len(table) |->
                       IF table[i][onConflict] = row[onConflict]
                       THEN [table[i] EXCEPT !.user_id = row.user_id,
                                             !.title = row.title,
                                             !.messages = row.messages,
                                             !.updated_at = DbNow(table)]
                       ELSE table[i]]]
    ELSE [error |-> FALSE,
          table |-> Append(table, [id |-> Len(table) + 1,
                                   user_id |-> row.user_id,
                                   conversation_id |-> row.conversation_id,
                                   title |-> row.title,
                                   messages |-> row.messages,
                                   updated_at |-> DbNow(table)])]

\* mutant of OrderByUpdatedDesc: the rows stay in table order
OrderByUpdatedDesc_Unsorted(rows) == rows

\* .order('updated_at', {ascending: false})
RECURSIVE OrderByUpdatedDesc(_)
OrderByUpdatedDesc(rows) ==
    IF rows = <<>> THEN <<>>
    ELSE LET m == CHOOSE i \in 1..Len(rows) :
                      /\ \A j \in 1..Len(rows) : rows[j].updated_at <= rows[i].updated_at
                      /\ \A j \in 1..(i - 1) : rows[j].updated_at < rows[i].updated_at
             rest == [i \in 1..(Len(rows) - 1) |-> IF i < m THEN rows[i] ELSE rows[i + 1]]
         IN  <<rows[m]>> \o OrderByUpdatedDesc(rest)

\* select('*').eq('user_id', uid).order('updated_at', {ascending: false})
SelectHistories(table, uid) ==
    OrderByUpdatedDesc(SelectSeq(table, LAMBDA r : r.user_id = uid))

\* the row object one conversation is upserted as
UpsertRow(uid, conv) ==
    [user_id |-> uid, conversation_id |-> conv.id, title |-> conv.title,
     messages |-> JSONStringify(conv.messages)]

\* data.map(record => ...) of loadFromSupabase
RecordToConversation(record) ==
    [id |-> record.conversation_id,
     title |-> record.title,
     messages |-> IF IsJSONString(record.messages) THEN JSONParse(record.messages)
                  ELSE record.messages]

\* loadConversations: the stored blob parsed, or [] when nothing is stored
LoadConversations(ls) ==
    IF ls.chat_conversations = <<>> THEN <<>>
    ELSE JSONParse(ls.chat_conversations[1])

\* saveConversations
SaveConversations(ls, convs) ==
    [ls EXCEPT !.chat_conversations = <<JSONStringify(convs)>>]

-----------------------------------------------------------------------------
(* chat-gemini edge function *)

\* what the fetch to the generative-language API can come back with
ProviderOutcomes ==
    {"fetch_throws", "not_ok", "bad_json", "no_candidates", "no_content",
     "no_parts", "no_text", "empty_text", "text"}

ProviderText == Str("Sure!")

ProxyErrorResponse ==
    [status |-> 500,
     body |-> <<[response |-> NoText, error |-> "error", fallbackResponse |-> ProxyFallbackText]>>]

ProxySuccessResponse(text) ==
    [status |-> 200,
     body |-> <<[response |-> text, error |-> NULL, fallbackResponse |-> NoText]>>]

\* handler of chat-gemini: the Response for one request
ProxyHandler(method, bodyOk, hasKey, provider) ==
    IF method = "OPTIONS" THEN [status |-> 200, body |-> <<>>]
    ELSE IF ~bodyOk THEN ProxyErrorResponse
    ELSE IF ~hasKey THEN ProxyErrorResponse
    ELSE IF provider \in {"fetch_throws", "not_ok", "bad_json", "no_candidates",
                          "no_content", "no_parts"}
    THEN ProxyErrorResponse
    ELSE IF provider = "no_text" THEN ProxySuccessResponse(NoText)
    ELSE IF provider = "empty_text" THEN ProxySuccessResponse(<<>>)
    ELSE ProxySuccessResponse(ProviderText)

\* currentParts: the parts of the current message sent to the provider; the
\* inline data is what follows the comma of the data URL
CurrentParts(message, image) ==
    (IF message # <<>> THEN <<[kind |-> "text", value |-> message]>> ELSE <<>>)
    \o (IF image # NULL THEN <<[kind |-> "inlineData", value |-> image]>> ELSE <<>>)

\* one entry of contents: the role as the provider names it and the parts of
\* the message
ContentEntry(msg) ==
    [role |-> IF msg.role = "ai" THEN "model" ELSE "user",
     parts |-> CurrentParts(msg.content, msg.image)]

\* contents of the provider request for a request body {message, image,
\* conversationHistory}: the history in order, then the current message
Contents(req) ==
    [i \in 1..Len(req.conversationHistory) |-> ContentEntry(req.conversationHistory[i])]
    \o <<[role |-> "user", parts |-> CurrentParts(req.message, req.image)]>>

\* supabase.functions.invoke: {data, error} for a transport outcome and a Response
InvokeResult(netOk, resp) ==
    IF ~netOk THEN [error |-> TRUE, data |-> <<>>]
    ELSE IF resp.status < 200 \/ resp.status > 299 THEN [error |-> TRUE, data |-> <<>>]
    ELSE [error |-> FALSE, data |-> resp.body]

\* every {data, error} an invoke of chat-gemini can settle with
InvokeResults ==
    {InvokeResult(netOk, ProxyHandler("POST", TRUE, hasKey, provider)) :
        netOk \in BOOLEAN, hasKey \in BOOLEAN, provider \in ProviderOutcomes}

\* a || b for strings: b when a is undefined or empty
OrElse(a, b) == IF a = NoText \/ a = <<>> THEN b ELSE a

\* the text of the assistant message handleSendMessage appends for an invoke result
AssistantText(result) ==
    IF result.error THEN ClientFallbackText
    ELSE IF result.data = <<>> THEN ClientFallbackText
    ELSE OrElse(result.data[1].response,
                OrElse(result.data[1].fallbackResponse, ClientDefaultText))

-----------------------------------------------------------------------------
(* get-directory edge function *)

Contact1 == [id |-> "c1", contact_name |-> "Jane Doe", contact_email |-> "jane@school.edu"]
Contact2 == [id |-> "c2", contact_name |-> "Jane Roe", contact_email |-> "roe@school.edu"]
Contact3 == [id |-> "c3", contact_name |-> "Jane Poe", contact_email |-> "poe@school.edu"]

\* what the directory_contacts query can come back with
DirectoryQueryOutcomes ==
    {[error |-> TRUE, contacts |-> <<>>],
     [error |-> FALSE, contacts |-> <<>>],
     [error |-> FALSE, contacts |-> <<Contact1>>],
     [error |-> FALSE, contacts |-> <<Contact1, Contact2>>],
     [error |-> FALSE, contacts |-> <<Contact1, Contact2, Contact3>>]}

\* the caller's profiles row: none, or the value of is_edu_account
Profiles == {"none", "flag_null", "flag_false", "flag_true"}

DirectoryResponse(status, error, contacts, queried) ==
    [status |-> status, hasBody |-> TRUE, error |-> error, contacts |-> contacts,
     hasContacts |-> (status = 200), queried |-> queried]

\* mutant of DirectoryHandler: only a missing profile is rejected
DirectoryHandler_NullFlagPasses(method, bodyOk, hasAuthHeader, authenticated, profile, query) ==
    IF method = "OPTIONS"
    THEN [status |-> 200, hasBody |-> FALSE, error |-> NULL, contacts |-> <<>>,
          hasContacts |-> FALSE, queried |-> FALSE]
    ELSE IF ~bodyOk THEN DirectoryResponse(500, "error", <<>>, FALSE)
    ELSE IF ~hasAuthHeader THEN DirectoryResponse(500, "No authorization header", <<>>, FALSE)
    ELSE IF ~authenticated THEN DirectoryResponse(500, "User not authenticated", <<>>, FALSE)
    ELSE IF profile \in {"none", "flag_false"}
    THEN DirectoryResponse(403, "Directory access requires an educational account", <<>>, FALSE)
    ELSE IF query.error THEN DirectoryResponse(500, "error", <<>>, TRUE)
    ELSE DirectoryResponse(200, NULL, query.contacts, TRUE)

\* handler of get-directory: the Response for one request, and whether the
\* directory_contacts query ran
DirectoryHandler(method, bodyOk, hasAuthHeader, authenticated, profile, query) ==
    IF method = "OPTIONS"
    THEN [status |-> 200, hasBody |-> FALSE, error |-> NULL, contacts |-> <<>>,
          hasContacts |-> FALSE, queried |-> FALSE]
    ELSE IF ~bodyOk THEN DirectoryResponse(500, "error", <<>>, FALSE)
    ELSE IF ~hasAuthHeader THEN DirectoryResponse(500, "No authorization header", <<>>, FALSE)
    ELSE IF ~authenticated THEN DirectoryResponse(500, "User not authenticated", <<>>, FALSE)
    ELSE IF profile # "flag_true"
    THEN DirectoryResponse(403, "Directory access requires an educational account", <<>>, FALSE)
    ELSE IF query.error THEN DirectoryResponse(500, "error", <<>>, TRUE)
    ELSE DirectoryResponse(200, NULL, query.contacts, TRUE)

\* searchDirectory after its invoke settles: data.contacts || [], [] on any error
SearchResult(netOk, resp) ==
    IF ~netOk THEN <<>>
    ELSE IF resp.status < 200 \/ resp.status > 299 THEN <<>>
    ELSE IF ~resp.hasBody THEN <<>>
    ELSE resp.contacts

\* every contact list searchDirectory can return to a caller that holds a token;
\* the request is authenticated iff a user was signed in when it was sent
SearchResults(authenticated) ==
    {SearchResult(netOk, DirectoryHandler("POST", TRUE, TRUE, authenticated, profile, query)) :
        netOk \in BOOLEAN, profile \in Profiles, query \in DirectoryQueryOutcomes}

-----------------------------------------------------------------------------
(* State of the ChatInterface component and of the stores it talks to *)

VARIABLES
    conversations,          \* useState<Conversation[]>
    activeConversationId,   \* useState<string | null>
    message,                \* useState('')
    selectedImage,          \* useState<string | null>
    isLoading,              \* useState(false)
    emailComposer,          \* useState({isOpen, contacts})
    contactSelector,        \* useState({isOpen, contacts, position})
    gmailAccessToken,       \* useState<string | null>
    user,                   \* useAuth().user: NULL for a guest
    localStorage,           \* the browser's localStorage
    remote,                 \* rows of public.chat_histories
    inflight,               \* upserts sent and not yet settled: a bag of rows, one copy
                            \* per pending call
    loadState,              \* "init" before the first render, "fetching" while a select
                            \* of loadFromSupabase is awaited, "done" otherwise
    pend,                   \* the suspended handleSendMessage, with what it captured,
                            \* whether a user was signed in when it started, and the
                            \* chat-gemini request body it awaits the answer to
    nextId,                 \* the next identifier crypto.randomUUID() returns
    calls,                  \* how often handleSendMessage ran and the edge functions were invoked
    lastOp,                 \* the last handler that wrote conversations, its argument, and
                            \* the activeConversationId it started from
    dirLog,                 \* the last get-directory request and its response
    proxyLog,               \* the last chat-gemini request and its response
    mail,                   \* the EmailComposer's send calls, their results, and the toasts
    stamped,                \* one conversation object with its timestamp field, the time
                            \* (in clock readings) and the last change made to it
    gmailInit,              \* initializeGmailAccess: "init", "awaiting" (getSession), "done"
    loads                   \* selects of loadFromSupabase sent and not yet settled: a bag
                            \* of closures, each with the user.id it asked for and the
                            \* conversations of the render its effect ran in

vars == <<conversations, activeConversationId, message, selectedImage, isLoading,
          emailComposer, contactSelector, gmailAccessToken, user, localStorage,
          remote, inflight, loadState, pend, nextId, calls, lastOp, dirLog, proxyLog, mail,
          stamped, gmailInit, loads>>

\* ContactNameOf over the texts the user may type, computed once
ContactNames == [t \in Texts |-> ContactNameOf(t)]

\* conversations stored by an earlier session
SeedA ==
    [id |-> 1, title |-> Str("Homework"),
     messages |-> <<Message("ai", Greeting, NULL), Message("user", HelloText, NULL),
                    Message("ai", ProviderText, NULL)>>]
SeedB == NewConversation(2)

FirstFreshId == SeedB.id + 1

\* rows of chat_histories: the messages column (JSONB) of the first holds a JSON
\* text, that of the second the array itself
RemoteSeed ==
    <<[id |-> 1, user_id |-> UserId, conversation_id |-> SeedA.id, title |-> SeedA.title,
       messages |-> JSONStringify(SeedA.messages), updated_at |-> 1],
      [id |-> 2, user_id |-> UserId, conversation_id |-> SeedB.id, title |-> SeedB.title,
       messages |-> SeedB.messages, updated_at |-> 2],
      [id |-> 3, user_id |-> OtherUserId, conversation_id |-> 100, title |-> Str("Not mine"),
       messages |-> JSONStringify(<<Message("ai", Greeting, NULL)>>), updated_at |-> 3]>>

LocalSeed == <<JSONStringify(<<SeedB, SeedA>>)>>

GmailToken == "tok"

\* session?.provider_token as getSession() or an auth event reports it: nothing
\* without a session; with one, the provider's token or nothing
ProviderTokens(usr) == IF usr = NULL THEN {NULL} ELSE {NULL, GmailToken}

\* the events the onAuthStateChange listener is called with
AuthEvents == {"SIGNED_IN", "TOKEN_REFRESHED"}

ClosedComposer == [isOpen |-> FALSE, contacts |-> <<>>]
ClosedSelector == [isOpen |-> FALSE, contacts |-> <<>>]

Idle ==
    [pc |-> "idle", message |-> <<>>, selectedImage |-> NULL, updatedConversations |-> <<>>,
     activeConversationId |-> NoId, activeConversation |-> <<>>, gmailAccessToken |-> NULL,
     authenticated |-> FALSE, request |-> <<>>]

NoDirLog == [method |-> "none", bodyOk |-> FALSE, hasAuthHeader |-> FALSE,
             authenticated |-> FALSE, profile |-> "none",
             query |-> [error |-> FALSE, contacts |-> <<>>],
             resp |-> [status |-> 0, hasBody |-> FALSE, error |-> NULL, contacts |-> <<>>,
                       hasContacts |-> FALSE, queried |-> FALSE]]

NoProxyLog == [method |-> "none", bodyOk |-> FALSE, hasKey |-> FALSE, provider |-> "none",
               message |-> <<>>, image |-> NULL, parts |-> <<>>,
               resp |-> [status |-> 0, body |-> <<>>]]

\* no confirmation yet: no send-gmail call, no toast
NoMail == [confirms |-> 0, sends |-> <<>>, results |-> <<>>, announced |-> {},
           fillIn |-> 0, needToken |-> 0]

\* a conversation object with its timestamp field
WithTimestamp(conv, t) ==
    [id |-> conv.id, title |-> conv.title, messages |-> conv.messages, timestamp |-> t]

\* the conversation createNewConversation builds when new Date() reads 0
NewStamped ==
    [conv |-> WithTimestamp(NewConversation(FirstFreshId), 0), now |-> 0, op |-> "create"]

ClientInit ==
    /\ conversations = <<>>
    /\ activeConversationId = NoId
    /\ message = <<>>
    /\ selectedImage = NULL
    /\ isLoading = FALSE
    /\ emailComposer = ClosedComposer
    /\ contactSelector = ClosedSelector
    /\ gmailAccessToken = NULL
    /\ user \in {NULL, UserId}
    /\ \/ /\ user = NULL
          /\ remote = <<>>
          /\ \E blob \in {<<>>, LocalSeed} :
               localStorage = [chat_conversations |-> blob, gmail_access_token |-> NULL]
       \/ /\ user # NULL
          /\ remote \in {<<>>, RemoteSeed}
          /\ \E token \in {NULL, GmailToken} :
               localStorage = [chat_conversations |-> <<>>, gmail_access_token |-> token]
    /\ inflight = EmptyBag
    /\ loadState = "init"
    /\ pend = Idle
    /\ nextId = FirstFreshId
    /\ calls = [submits |-> 0, ai |-> 0, dir |-> 0]
    /\ lastOp = [op |-> "none", id |-> NoId, was |-> NoId]
    /\ dirLog = NoDirLog
    /\ proxyLog = NoProxyLog
    /\ mail = NoMail
    /\ stamped = NewStamped
    /\ gmailInit = "init"
    /\ loads = EmptyBag

Init == ClientInit

-----------------------------------------------------------------------------
(* The save effect: runs after every render in which conversations changed *)

\* saveConversations(conversations) when the set is not empty
EffectLocal(ls, convs) ==
    IF Len(convs) > 0 THEN SaveConversations(ls, convs) ELSE ls

\* conversationsToSave.map(conv => supabase.from('chat_histories').upsert(...)):
\* one more pending call per conversation
RECURSIVE UpsertAll(_, _, _)
UpsertAll(sent, convs, usr) ==
    IF convs = <<>> THEN sent
    ELSE UpsertAll(sent (+) SetToBag({UpsertRow(usr, convs[1])}), Tail(convs), usr)

\* saveConversationsToSupabase: one upsert per conversation, all sent at once
EffectRemote(sent, convs, usr) ==
    IF Len(convs) > 0 /\ usr # NULL THEN UpsertAll(sent, convs, usr) ELSE sent

\* setConversations(convs) followed by the save effect; ls is localStorage as the
\* handler itself left it
SetConversations(convs, ls) ==
    /\ conversations' = convs
    /\ localStorage' = EffectLocal(ls, convs)
    /\ inflight' = EffectRemote(inflight, convs, user)
    /\ BagCardinality(inflight') <= MaxInflight

\* [newConversation, ...conversations]
PrependNew(convs, id) == <<NewConversation(id)>> \o convs

\* the state createNewConversation sets, called from a render that saw convs
\* and usr
CreateFrom(convs, usr) ==
    LET updatedConversations == PrependNew(convs, nextId)
    IN  /\ nextId < FirstFreshId + MaxConvs
        /\ SetConversations(updatedConversations,
                            IF usr = NULL
                            THEN SaveConversations(localStorage, updatedConversations)
                            ELSE localStorage)
        /\ activeConversationId' = nextId
        /\ nextId' = nextId + 1

-----------------------------------------------------------------------------
(* Handlers *)

\* what a run of loadFromSupabase holds on to while its select is awaited
LoadClosure(usr, convs) == [userId |-> usr, conversations |-> convs]

\* the effects of the first render: the load effect, and initializeGmailAccess
\* up to its return (a token is stored) or its `await supabase.auth.getSession()`
Mount ==
    /\ loadState = "init"
    /\ gmailAccessToken' = localStorage.gmail_access_token
    /\ gmailInit' = IF localStorage.gmail_access_token # NULL THEN "done" ELSE "awaiting"
    /\ lastOp' = [op |-> "mount", id |-> NoId, was |-> activeConversationId]
    /\ IF user # NULL
       THEN /\ loadState' = "fetching"
            /\ loads' = SetToBag({LoadClosure(user, conversations)})
            /\ UNCHANGED <<conversations, activeConversationId, localStorage, inflight, nextId>>
       ELSE /\ loadState' = "done"
            /\ UNCHANGED loads
            /\ LET savedConversations == LoadConversations(localStorage)
               IN  IF Len(savedConversations) > 0
                   THEN /\ SetConversations(savedConversations, localStorage)
                        /\ activeConversationId' = savedConversations[1].id
                        /\ UNCHANGED nextId
                   ELSE CreateFrom(conversations, user)
    /\ UNCHANGED <<message, selectedImage, isLoading, emailComposer, contactSelector,
                   user, remote, pend, calls, dirLog, proxyLog, mail, stamped>>

\* loadFromSupabase resumed after its select settles.  The select asked for the
\* rows of the user of the render the effect ran in, and the createNewConversation
\* it falls back to is the one of that render.
LoadFromSupabase(load, netOk) ==
    /\ BagIn(load, loads)
    /\ loads' = loads (-) SetToBag({load})
    /\ loadState' = IF loads' = EmptyBag THEN "done" ELSE "fetching"
    /\ lastOp' = [op |-> "load", id |-> NoId, was |-> activeConversationId]
    /\ LET data == IF netOk THEN SelectHistories(remote, load.userId) ELSE <<>>
           loadedConversations == [i \in 1..Len(data) |-> RecordToConversation(data[i])]
       IN  IF Len(data) > 0
           THEN /\ SetConversations(loadedConversations, localStorage)
                /\ activeConversationId' = loadedConversations[1].id
                /\ UNCHANGED nextId
           ELSE CreateFrom(load.conversations, load.userId)
    /\ UNCHANGED <<message, selectedImage, isLoading, emailComposer, contactSelector,
                   gmailAccessToken, user, remote, pend, calls, dirLog, proxyLog, mail, stamped,
                   gmailInit>>

\* the New Chat button
CreateNewConversation ==
    /\ loadState # "init"
    /\ CreateFrom(conversations, user)
    /\ lastOp' = [op |-> "create", id |-> nextId, was |-> activeConversationId]
    /\ UNCHANGED <<message, selectedImage, isLoading, emailComposer, contactSelector,
                   gmailAccessToken, user, remote, loadState, pend, calls, dirLog, proxyLog, mail, stamped,
                   gmailInit, loads>>

\* conversations.filter(c => c.id !== conversationId)
RemainingAfterDelete(convs, conversationId) ==
    SelectSeq(convs, LAMBDA c : c.id # conversationId)

\* mutant of MustCreate: deleting the last conversation creates nothing
MustCreate_Never(active, conversationId, updatedConversations) == FALSE

\* deleteConversation hands over to createNewConversation
MustCreate(active, conversationId, updatedConversations) ==
    active = conversationId /\ Len(updatedConversations) = 0

\* mutant of ActiveAfterDelete: the active pointer is left where it was
ActiveAfterDelete_Keep(active, conversationId, updatedConversations) == active

\* the active identifier deleteConversation leaves when it does not create
ActiveAfterDelete(active, conversationId, updatedConversations) ==
    IF active = conversationId /\ Len(updatedConversations) > 0
    THEN updatedConversations[1].id
    ELSE active

\* Delete Chat in the context menu of conversation conversationId.  The call of
\* createNewConversation reads the conversations of the current render, so its
\* setConversations replaces the filtered list written just before.
DeleteConversation(conversationId) ==
    /\ loadState # "init"
    /\ lastOp' = [op |-> "delete", id |-> conversationId, was |-> activeConversationId]
    /\ LET updatedConversations == RemainingAfterDelete(conversations, conversationId)
       IN  IF MustCreate(activeConversationId, conversationId, updatedConversations)
           THEN CreateFrom(conversations, user)
           ELSE /\ SetConversations(updatedConversations,
                                    IF user = NULL
                                    THEN SaveConversations(localStorage, updatedConversations)
                                    ELSE localStorage)
                /\ activeConversationId' =
                       ActiveAfterDelete(activeConversationId, conversationId,
                                         updatedConversations)
                /\ UNCHANGED nextId
    /\ UNCHANGED <<message, selectedImage, isLoading, emailComposer, contactSelector,
                   gmailAccessToken, user, remote, loadState, pend, calls, dirLog, proxyLog, mail, stamped,
                   gmailInit, loads>>

\* click on a conversation in the sidebar
SelectConversation(id) ==
    /\ id \in IdsOf(conversations)
    /\ id # activeConversationId
    /\ activeConversationId' = id
    /\ UNCHANGED <<conversations, message, selectedImage, isLoading, emailComposer,
                   contactSelector, gmailAccessToken, user, localStorage, remote,
                   inflight, loadState, pend, nextId, calls, dirLog, proxyLog, lastOp, mail, stamped,
                   gmailInit, loads>>

\* mutant of AppendUserTurn: the user message replaces the last message
AppendUserTurn_ReplaceLast(convs, id, msg, image) ==
    [i \in 1..Len(convs) |->
        IF convs[i].id = id
        THEN [convs[i] EXCEPT !.messages = [@ EXCEPT ![Len(@)] = Message("user", msg, image)],
                              !.title = DeriveTitle(@, msg)]
        ELSE convs[i]]

\* the conversations.map of handleSendMessage that appends the user turn
AppendUserTurn(convs, id, msg, image) ==
    [i \in 1..Len(convs) |->
        IF convs[i].id = id
        THEN [convs[i] EXCEPT !.messages = Append(@, Message("user", msg, image)),
                              !.title = DeriveTitle(@, msg)]
        ELSE convs[i]]

\* mutant of AppendAssistantTurn: the assistant message goes to the first
\* conversation of the list
AppendAssistantTurn_First(convs, id, text) ==
    [i \in 1..Len(convs) |->
        IF i = 1
        THEN [convs[i] EXCEPT !.messages = Append(@, Message("ai", text, NULL))]
        ELSE convs[i]]

\* mutant of AppendAssistantTurn: the assistant message is appended twice
AppendAssistantTurn_Twice(convs, id, text) ==
    [i \in 1..Len(convs) |->
        IF convs[i].id = id
        THEN [convs[i] EXCEPT !.messages = @ \o <<Message("ai", text, NULL),
                                                  Message("ai", text, NULL)>>]
        ELSE convs[i]]

\* the updatedConversations.map that appends the assistant turn
AppendAssistantTurn(convs, id, text) ==
    [i \in 1..Len(convs) |->
        IF convs[i].id = id
        THEN [convs[i] EXCEPT !.messages = Append(@, Message("ai", text, NULL))]
        ELSE convs[i]]

\* mutant of ConversationHistory: the history is read after the user turn was
\* appended
ConversationHistory_WithUserTurn(p) ==
    LET conv == FindConv(p.updatedConversations, p.activeConversationId)
    IN  [i \in 1..Len(conv[1].messages) |->
            [role |-> conv[1].messages[i].role,
             content |-> conv[1].messages[i].content,
             image |-> conv[1].messages[i].image]]

\* conversationHistory of the invoke body: activeConversation.messages.map(...)
\* over the conversation of the render the handler ran in
ConversationHistory(p) ==
    [i \in 1..Len(p.activeConversation[1].messages) |->
        [role |-> p.activeConversation[1].messages[i].role,
         content |-> p.activeConversation[1].messages[i].content,
         image |-> p.activeConversation[1].messages[i].image]]

\* the body handleSendMessage invokes chat-gemini with
ChatRequest(p) ==
    [message |-> p.message, image |-> p.selectedImage,
     conversationHistory |-> ConversationHistory(p)]

\* handleSendMessage from the try block on, run by a handler that captured p;
\* first tells whether this is the run that appended the user turn (no await
\* since), counted is the call count so far, ls is localStorage as the handler
\* left it.  Reading activeConversation.messages throws when no conversation
\* was active in the captured render, which lands in the catch block without a
\* request.
CallGemini(p, counted, first, ls) ==
    IF p.activeConversation = <<>>
    THEN /\ SetConversations(AppendAssistantTurn(p.updatedConversations,
                                                 p.activeConversationId,
                                                 ClientFallbackText),
                             ls)
         /\ isLoading' = FALSE
         /\ pend' = Idle
         /\ calls' = counted
    ELSE /\ IF first
            THEN SetConversations(p.updatedConversations, ls)
            ELSE /\ localStorage' = ls
                 /\ UNCHANGED <<conversations, inflight>>
         /\ isLoading' = TRUE
         /\ pend' = [p EXCEPT !.pc = "ai", !.request = <<ChatRequest(p)>>]
         /\ calls' = [counted EXCEPT !.ai = @ + 1]

\* onChange of the textarea, which is disabled while isLoading
SetMessage(text) ==
    /\ loadState # "init"
    /\ ~isLoading
    /\ text # message
    /\ message' = text
    /\ UNCHANGED <<conversations, activeConversationId, selectedImage, isLoading,
                   emailComposer, contactSelector, gmailAccessToken, user, localStorage,
                   remote, inflight, loadState, pend, nextId, calls, lastOp, dirLog,
                   proxyLog, mail, stamped, gmailInit, loads>>

\* handleImageSelect, through reader.onload: the picked file is put in the
\* preview as a data URI.  The file input is not disabled while isLoading.
HandleImageSelect(image) ==
    /\ loadState # "init"
    /\ selectedImage' = image
    /\ UNCHANGED <<conversations, activeConversationId, message, isLoading,
                   emailComposer, contactSelector, gmailAccessToken, user, localStorage,
                   remote, inflight, loadState, pend, nextId, calls, lastOp, dirLog,
                   proxyLog, mail, stamped, gmailInit, loads>>

\* the X button of the image preview, rendered while an image is selected
ClearImage ==
    /\ selectedImage # NULL
    /\ selectedImage' = NULL
    /\ UNCHANGED <<conversations, activeConversationId, message, isLoading,
                   emailComposer, contactSelector, gmailAccessToken, user, localStorage,
                   remote, inflight, loadState, pend, nextId, calls, lastOp, dirLog,
                   proxyLog, mail, stamped, gmailInit, loads>>

\* mutant of HandleSendMessage: the textarea and the Send button stay enabled
\* while loading
HandleSendMessage_WhileLoading ==
    /\ loadState # "init"
    /\ lastOp' = [op |-> "send", id |-> activeConversationId, was |-> activeConversationId]
    /\ IF (Trim(message) = <<>> /\ selectedImage = NULL) \/ activeConversationId = NoId
       THEN /\ calls' = [calls EXCEPT !.submits = @ + 1]
            /\ UNCHANGED <<conversations, message, selectedImage, isLoading, localStorage,
                           inflight, pend>>
       ELSE LET p == [pc |-> "sent",
                      message |-> message,
                      selectedImage |-> selectedImage,
                      updatedConversations |->
                          AppendUserTurn(conversations, activeConversationId, message,
                                         selectedImage),
                      activeConversationId |-> activeConversationId,
                      activeConversation |-> FindConv(conversations, activeConversationId),
                      gmailAccessToken |-> gmailAccessToken,
                      authenticated |-> user # NULL,
                      request |-> <<>>]
            IN  /\ message' = <<>>
                /\ selectedImage' = NULL
                /\ IF ContactNames[message] # <<>>
                   THEN /\ SetConversations(p.updatedConversations, localStorage)
                        /\ isLoading' = TRUE
                        /\ pend' = [p EXCEPT !.pc = "dir"]
                        /\ calls' = [calls EXCEPT
                                       !.submits = @ + 1,
                                       !.dir = IF gmailAccessToken # NULL THEN @ + 1 ELSE @]
                   ELSE CallGemini(p, [calls EXCEPT !.submits = @ + 1], TRUE, localStorage)
    /\ UNCHANGED <<activeConversationId, emailComposer, contactSelector, gmailAccessToken,
                   user, remote, loadState, nextId, dirLog, proxyLog, mail, stamped, gmailInit, loads>>

\* Send is pressed, or Enter in the textarea: handleSendMessage runs with the
\* message and selectedImage of the current render, up to its first await.  The
\* textarea and the Send button are disabled while isLoading; a run that
\* returns at the first line leaves both as they are.
HandleSendMessage ==
    /\ loadState # "init"
    /\ ~isLoading
    /\ lastOp' = [op |-> "send", id |-> activeConversationId, was |-> activeConversationId]
    /\ IF (Trim(message) = <<>> /\ selectedImage = NULL) \/ activeConversationId = NoId
       THEN /\ calls' = [calls EXCEPT !.submits = @ + 1]
            /\ UNCHANGED <<conversations, message, selectedImage, isLoading, localStorage,
                           inflight, pend>>
       ELSE LET p == [pc |-> "sent",
                      message |-> message,
                      selectedImage |-> selectedImage,
                      updatedConversations |->
                          AppendUserTurn(conversations, activeConversationId, message,
                                         selectedImage),
                      activeConversationId |-> activeConversationId,
                      activeConversation |-> FindConv(conversations, activeConversationId),
                      gmailAccessToken |-> gmailAccessToken,
                      authenticated |-> user # NULL,
                      request |-> <<>>]
            IN  /\ message' = <<>>
                /\ selectedImage' = NULL
                /\ IF ContactNames[message] # <<>>
                   THEN /\ SetConversations(p.updatedConversations, localStorage)
                        /\ isLoading' = TRUE
                        /\ pend' = [p EXCEPT !.pc = "dir"]
                        /\ calls' = [calls EXCEPT
                                       !.submits = @ + 1,
                                       !.dir = IF gmailAccessToken # NULL THEN @ + 1 ELSE @]
                   ELSE CallGemini(p, [calls EXCEPT !.submits = @ + 1], TRUE, localStorage)
    /\ UNCHANGED <<activeConversationId, emailComposer, contactSelector, gmailAccessToken,
                   user, remote, loadState, nextId, dirLog, proxyLog, mail, stamped, gmailInit, loads>>

\* mutant of DirectoryRoute: a single contact is not taken up
DirectoryRoute_NoShortcut(contacts) ==
    IF Len(contacts) > 1 THEN "selector" ELSE "ai"

\* mutant of DirectoryRoute: of several contacts the first one is taken
DirectoryRoute_FirstOfMany(contacts) ==
    IF Len(contacts) >= 1 THEN "composer" ELSE "ai"

\* where handleSendMessage goes with the contacts searchDirectory returned
DirectoryRoute(contacts) ==
    IF Len(contacts) > 1 THEN "selector"
    ELSE IF Len(contacts) = 1 THEN "composer"
    ELSE "ai"

\* localStorage.setItem('gmail_access_token', token)
StoreToken(ls, token) == [ls EXCEPT !.gmail_access_token = token]

\* mutant of DirectoryResolve: opening the contact selector leaves the loading
\* flag set
DirectoryResolve_SelectorKeepsLoading(found, providerToken) ==
    /\ pend.pc = "dir"
    /\ found \in (IF pend.gmailAccessToken = NULL THEN {<<>>}
                  ELSE SearchResults(pend.authenticated))
    /\ providerToken \in (IF pend.gmailAccessToken = NULL THEN ProviderTokens(user)
                          ELSE {NULL})
    /\ lastOp' = [op |-> "directory", id |-> pend.activeConversationId, was |-> activeConversationId]
    /\ LET contacts == found
           ls == IF providerToken # NULL THEN StoreToken(localStorage, providerToken)
                 ELSE localStorage
       IN  /\ gmailAccessToken' = IF providerToken # NULL THEN providerToken
                                  ELSE gmailAccessToken
           /\ IF DirectoryRoute(contacts) = "selector"
              THEN /\ contactSelector' = [isOpen |-> TRUE, contacts |-> contacts]
                   /\ isLoading' = TRUE
                   /\ pend' = Idle
                   /\ localStorage' = ls
                   /\ UNCHANGED <<conversations, inflight, emailComposer, calls>>
              ELSE IF DirectoryRoute(contacts) = "composer"
              THEN /\ emailComposer' = [isOpen |-> TRUE, contacts |-> <<contacts[1]>>]
                   /\ isLoading' = FALSE
                   /\ pend' = Idle
                   /\ localStorage' = ls
                   /\ UNCHANGED <<conversations, inflight, contactSelector, calls>>
              ELSE /\ CallGemini(pend, calls, FALSE, ls)
                   /\ UNCHANGED <<emailComposer, contactSelector>>
    /\ UNCHANGED <<activeConversationId, message, selectedImage, user,
                   remote, loadState, nextId, dirLog, proxyLog, mail, stamped, gmailInit, loads>>

\* handleSendMessage resumed after `await searchDirectory(contactName)` with
\* what searchDirectory returned.  With a token in the captured render, the
\* contacts are those of the get-directory response to the request as it was
\* sent: get-directory authenticates the session the request carried, whoever
\* is signed in by the time the response arrives.  Without one,
\* searchDirectory sends nothing, runs getGmailAccess and returns []:
\* getGmailAccess keeps the provider token of the session, when the session has
\* one (providerToken), in gmailAccessToken and in localStorage.
DirectoryResolve(found, providerToken) ==
    /\ pend.pc = "dir"
    /\ found \in (IF pend.gmailAccessToken = NULL THEN {<<>>}
                  ELSE SearchResults(pend.authenticated))
    /\ providerToken \in (IF pend.gmailAccessToken = NULL THEN ProviderTokens(user)
                          ELSE {NULL})
    /\ lastOp' = [op |-> "directory", id |-> pend.activeConversationId, was |-> activeConversationId]
    /\ LET contacts == found
           ls == IF providerToken # NULL THEN StoreToken(localStorage, providerToken)
                 ELSE localStorage
       IN  /\ gmailAccessToken' = IF providerToken # NULL THEN providerToken
                                  ELSE gmailAccessToken
           /\ IF DirectoryRoute(contacts) = "selector"
              THEN /\ contactSelector' = [isOpen |-> TRUE, contacts |-> contacts]
                   /\ isLoading' = FALSE
                   /\ pend' = Idle
                   /\ localStorage' = ls
                   /\ UNCHANGED <<conversations, inflight, emailComposer, calls>>
              ELSE IF DirectoryRoute(contacts) = "composer"
              THEN /\ emailComposer' = [isOpen |-> TRUE, contacts |-> <<contacts[1]>>]
                   /\ isLoading' = FALSE
                   /\ pend' = Idle
                   /\ localStorage' = ls
                   /\ UNCHANGED <<conversations, inflight, contactSelector, calls>>
              ELSE /\ CallGemini(pend, calls, FALSE, ls)
                   /\ UNCHANGED <<emailComposer, contactSelector>>
    /\ UNCHANGED <<activeConversationId, message, selectedImage, user,
                   remote, loadState, nextId, dirLog, proxyLog, mail, stamped, gmailInit, loads>>

\* initializeGmailAccess resumed after `await supabase.auth.getSession()`: the
\* provider token of the session, when it has one, is kept in gmailAccessToken
\* and in localStorage
InitializeGmailAccess(providerToken) ==
    /\ gmailInit = "awaiting"
    /\ providerToken \in ProviderTokens(user)
    /\ gmailInit' = "done"
    /\ IF providerToken # NULL
       THEN /\ gmailAccessToken' = providerToken
            /\ localStorage' = StoreToken(localStorage, providerToken)
       ELSE UNCHANGED <<gmailAccessToken, localStorage>>
    /\ UNCHANGED <<conversations, activeConversationId, message, selectedImage, isLoading,
                   emailComposer, contactSelector, user, remote, inflight, loadState,
                   pend, nextId, calls, lastOp, dirLog, proxyLog, mail, stamped, loads>>

\* the listener registered with supabase.auth.onAuthStateChange by the effect
\* of the first render: a SIGNED_IN event whose session has a provider token
\* puts the token in gmailAccessToken and in localStorage
OnAuthStateChange(event, providerToken) ==
    /\ loadState # "init"
    /\ providerToken \in ProviderTokens(user)
    /\ IF event = "SIGNED_IN" /\ providerToken # NULL
       THEN /\ gmailAccessToken' = providerToken
            /\ localStorage' = StoreToken(localStorage, providerToken)
       ELSE UNCHANGED <<gmailAccessToken, localStorage>>
    /\ UNCHANGED <<conversations, activeConversationId, message, selectedImage, isLoading,
                   emailComposer, contactSelector, user, remote, inflight, loadState,
                   pend, nextId, calls, lastOp, dirLog, proxyLog, mail, stamped, gmailInit, loads>>

\* handleSendMessage resumed after `await supabase.functions.invoke('chat-gemini')`
\* with the {data, error} it settled with
AiResolve(result) ==
    /\ pend.pc = "ai"
    /\ lastOp' = [op |-> "ai", id |-> pend.activeConversationId, was |-> activeConversationId]
    /\ LET text == AssistantText(result)
       IN  SetConversations(AppendAssistantTurn(pend.updatedConversations,
                                                pend.activeConversationId,
                                                text),
                            localStorage)
    /\ isLoading' = FALSE
    /\ pend' = Idle
    /\ UNCHANGED <<activeConversationId, message, selectedImage, emailComposer,
                   contactSelector, gmailAccessToken, user, remote, loadState, nextId,
                   calls, dirLog, proxyLog, mail, stamped, gmailInit, loads>>

\* onSelectContact of the ContactSelector
SelectContact(k) ==
    /\ contactSelector.isOpen
    /\ k \in 1..Len(contactSelector.contacts)
    /\ emailComposer' = [isOpen |-> TRUE, contacts |-> <<contactSelector.contacts[k]>>]
    /\ contactSelector' = ClosedSelector
    /\ UNCHANGED <<conversations, activeConversationId, message, selectedImage, isLoading,
                   gmailAccessToken, user, localStorage, remote, inflight, loadState,
                   pend, nextId, calls, dirLog, proxyLog, lastOp, mail, stamped, gmailInit, loads>>

\* onClose of the ContactSelector
CloseSelector ==
    /\ contactSelector.isOpen
    /\ contactSelector' = ClosedSelector
    /\ UNCHANGED <<conversations, activeConversationId, message, selectedImage, isLoading,
                   emailComposer, gmailAccessToken, user, localStorage, remote, inflight,
                   loadState, pend, nextId, calls, dirLog, proxyLog, lastOp, mail, stamped,
                   gmailInit, loads>>

\* onClose of the EmailComposer
CloseComposer ==
    /\ emailComposer.isOpen
    /\ emailComposer' = ClosedComposer
    /\ UNCHANGED <<conversations, activeConversationId, message, selectedImage, isLoading,
                   contactSelector, gmailAccessToken, user, localStorage, remote, inflight,
                   loadState, pend, nextId, calls, dirLog, proxyLog, lastOp, mail, stamped,
                   gmailInit, loads>>

\* sendEmail for every selected contact, in order, with the token of the
\* current render: without a token a "Gmail access required" toast and no
\* request, with one a send-gmail invoke whose result is awaited
RECURSIVE SendEmails(_, _, _, _, _)
SendEmails(m, contacts, subject, body, token) ==
    IF contacts = <<>> THEN m
    ELSE LET after ==
                 IF token = NULL
                 THEN [m EXCEPT !.needToken = @ + 1]
                 ELSE [m EXCEPT !.sends = Append(@, [to |-> contacts[1].contact_email,
                                                      subject |-> subject,
                                                      body |-> body,
                                                      confirm |-> m.confirms]),
                                !.results = Append(@, "pending")]
         IN  SendEmails(after, Tail(contacts), subject, body, token)

\* Send Email in the composer's preview, with what the user entered
HandleSend(subject, body) ==
    /\ emailComposer.isOpen
    /\ mail.confirms < MaxConfirms
    /\ IF Trim(subject) = <<>> \/ Trim(body) = <<>>
       THEN /\ mail' = [mail EXCEPT !.confirms = @ + 1, !.fillIn = @ + 1]
            /\ UNCHANGED emailComposer
       ELSE /\ mail' = [SendEmails([mail EXCEPT !.confirms = @ + 1],
                                   emailComposer.contacts, subject, body,
                                   gmailAccessToken)
                        EXCEPT !.announced = @ \cup {mail.confirms + 1}]
            /\ emailComposer' = ClosedComposer
    /\ UNCHANGED <<conversations, activeConversationId, message, selectedImage, isLoading,
                   contactSelector, gmailAccessToken, user, localStorage, remote, inflight,
                   loadState, pend, nextId, calls, lastOp, dirLog, proxyLog, stamped, gmailInit, loads>>

\* the send-gmail invoke of call i settles: "Email sent!" or "Failed to send
\* email" toast
SendEmailSettled(i, ok) ==
    /\ i \in 1..Len(mail.results)
    /\ mail.results[i] = "pending"
    /\ mail' = [mail EXCEPT !.results[i] = IF ok THEN "sent" ELSE "failed"]
    /\ UNCHANGED <<conversations, activeConversationId, message, selectedImage, isLoading,
                   emailComposer, contactSelector, gmailAccessToken, user, localStorage,
                   remote, inflight, loadState, pend, nextId, calls, lastOp, dirLog,
                   proxyLog, stamped, gmailInit, loads>>

\* useAuth() stops returning a user (the Sign Out button, rendered while a user
\* is set): the component renders again with user = null and the effects that
\* depend on user run in the order they are declared: the load effect takes its
\* guest branch (it reads localStorage before the save effect writes), then the
\* save effect stores the conversations of that render, and after the next
\* render the ones just set.  A select that is awaited stays awaited.
SignOut ==
    /\ user # NULL
    /\ loadState # "init"
    /\ user' = NULL
    /\ lastOp' = [op |-> "signout", id |-> NoId, was |-> activeConversationId]
    /\ LET savedConversations == LoadConversations(localStorage)
       IN  IF Len(savedConversations) > 0
           THEN /\ conversations' = savedConversations
                /\ activeConversationId' = savedConversations[1].id
                /\ localStorage' = EffectLocal(EffectLocal(localStorage, conversations),
                                               savedConversations)
                /\ UNCHANGED nextId
           ELSE LET updatedConversations == PrependNew(conversations, nextId)
                IN  /\ nextId < FirstFreshId + MaxConvs
                    /\ conversations' = updatedConversations
                    /\ activeConversationId' = nextId
                    /\ localStorage' =
                           EffectLocal(EffectLocal(SaveConversations(localStorage,
                                                                     updatedConversations),
                                                   conversations),
                                       updatedConversations)
                    /\ nextId' = nextId + 1
    /\ UNCHANGED <<message, selectedImage, isLoading, emailComposer, contactSelector,
                   gmailAccessToken, remote, inflight, loadState, pend, calls, dirLog,
                   proxyLog, mail, stamped, gmailInit, loads>>

\* useAuth() starts returning a user while the component is mounted: the
\* component renders again with the user and the effects that depend on user
\* run in the order they are declared: the load effect sends the select of
\* loadFromSupabase, the save effect stores the conversations of that render
\* and upserts them under the user.
SignIn(usr) ==
    /\ user = NULL
    /\ loadState # "init"
    /\ BagCardinality(loads) < MaxLoads
    /\ user' = usr
    /\ lastOp' = [op |-> "signin", id |-> NoId, was |-> activeConversationId]
    /\ loads' = loads (+) SetToBag({LoadClosure(usr, conversations)})
    /\ loadState' = "fetching"
    /\ localStorage' = EffectLocal(localStorage, conversations)
    /\ inflight' = EffectRemote(inflight, conversations, usr)
    /\ BagCardinality(inflight') <= MaxInflight
    /\ UNCHANGED <<conversations, activeConversationId, message, selectedImage, isLoading,
                   emailComposer, contactSelector, gmailAccessToken, remote, pend, nextId,
                   calls, dirLog, proxyLog, mail, stamped, gmailInit>>

\* one pending upsert of saveConversationsToSupabase settles
UpsertSettled(row, netOk) ==
    /\ BagIn(row, inflight)
    /\ inflight' = inflight (-) SetToBag({row})
    /\ remote' = IF netOk THEN Upsert(remote, row, "conversation_id").table ELSE remote
    /\ UNCHANGED <<conversations, activeConversationId, message, selectedImage, isLoading,
                   emailComposer, contactSelector, gmailAccessToken, user, localStorage,
                   loadState, pend, nextId, calls, dirLog, proxyLog, lastOp, mail, stamped,
                   gmailInit, loads>>

-----------------------------------------------------------------------------
(* Specification of the client *)

\* what the user types in Spec: a plain question or an email request
ClientTexts == {HelloText, EmailText}

\* every handler of the conversations, the turns and the email dialogs; typing,
\* picking an image and submitting stop when the submissions of the run are
\* used up.  The Gmail credential changes here through getGmailAccess alone:
\* its initialisation and the auth events are in the specifications below
Next ==
    \/ Mount
    \/ \E load \in BagToSet(loads), netOk \in BOOLEAN : LoadFromSupabase(load, netOk)
    \/ CreateNewConversation
    \/ \E id \in 1..(nextId - 1) : DeleteConversation(id)
    \/ \E id \in 1..(nextId - 1) : SelectConversation(id)
    \/ \E text \in ClientTexts : calls.submits < MaxSubmits /\ SetMessage(text)
    \/ calls.submits < MaxSubmits /\ HandleImageSelect(ImageData)
    \/ ClearImage
    \/ calls.submits < MaxSubmits /\ HandleSendMessage
    \/ \E found \in SearchResults(TRUE), providerToken \in {NULL, GmailToken} :
          DirectoryResolve(found, providerToken)
    \/ \E result \in InvokeResults : AiResolve(result)
    \/ \E k \in 1..3 : SelectContact(k)
    \/ CloseSelector
    \/ CloseComposer
    \/ \E inp \in ComposerInputs : HandleSend(inp[1], inp[2])
    \/ \E i \in DOMAIN mail.results, ok \in BOOLEAN : SendEmailSettled(i, ok)
    \/ \E row \in BagToSet(inflight), netOk \in BOOLEAN : UpsertSettled(row, netOk)

Spec == Init /\ [][Next]_vars

\* the client with create and delete left out: turns of the conversations a
\* session starts with
NextTurn ==
    \/ Mount
    \/ \E providerToken \in {NULL, GmailToken} : InitializeGmailAccess(providerToken)
    \/ \E event \in AuthEvents, providerToken \in {NULL, GmailToken} :
          OnAuthStateChange(event, providerToken)
    \/ \E load \in BagToSet(loads), netOk \in BOOLEAN : LoadFromSupabase(load, netOk)
    \/ \E id \in 1..(nextId - 1) : SelectConversation(id)
    \/ \E text \in Texts : calls.submits < MaxSubmits /\ SetMessage(text)
    \/ HandleImageSelect(ImageData)
    \/ ClearImage
    \/ calls.submits < MaxSubmits /\ HandleSendMessage
    \/ \E found \in SearchResults(TRUE), providerToken \in {NULL, GmailToken} :
          DirectoryResolve(found, providerToken)
    \/ \E result \in InvokeResults : AiResolve(result)
    \/ \E k \in 1..3 : SelectContact(k)
    \/ CloseSelector
    \/ CloseComposer
    \/ \E row \in BagToSet(inflight), netOk \in BOOLEAN : UpsertSettled(row, netOk)

SpecTurn == Init /\ [][NextTurn]_vars

\* SpecTurn with the external calls settling: a get-directory invoke, a
\* chat-gemini invoke and an upsert that are awaited eventually return or fail
SpecTurnFair ==
    /\ SpecTurn
    /\ WF_vars(\E found \in SearchResults(TRUE), providerToken \in {NULL, GmailToken} :
                  DirectoryResolve(found, providerToken))
    /\ WF_vars(\E result \in InvokeResults : AiResolve(result))
    /\ WF_vars(\E row \in BagToSet(inflight), netOk \in BOOLEAN : UpsertSettled(row, netOk))

\* a signed-in session that may end with Sign Out and go on as a guest
\* session: load, create, delete, select, sign out, sign in
InitSession ==
    /\ ClientInit
    /\ user = UserId

NextSession ==
    \/ Mount
    \/ \E providerToken \in {NULL, GmailToken} : InitializeGmailAccess(providerToken)
    \/ \E event \in AuthEvents, providerToken \in {NULL, GmailToken} :
          OnAuthStateChange(event, providerToken)
    \/ \E load \in BagToSet(loads), netOk \in BOOLEAN : LoadFromSupabase(load, netOk)
    \/ CreateNewConversation
    \/ \E id \in 1..(nextId - 1) : DeleteConversation(id)
    \/ \E id \in 1..(nextId - 1) : SelectConversation(id)
    \/ SignOut
    \/ SignIn(UserId)
    \/ \E row \in BagToSet(inflight), netOk \in BOOLEAN : UpsertSettled(row, netOk)

SpecSession == InitSession /\ [][NextSession]_vars

\* what the user types in SpecGate: a plain question or an email request
GateTexts == {HelloText, EmailText}

\* the client over two submissions, with create and switch in between and
\* without delete, the email dialogs, and the initialisation and auth events
\* of the Gmail credential
NextGate ==
    \/ Mount
    \/ \E load \in BagToSet(loads), netOk \in BOOLEAN : LoadFromSupabase(load, netOk)
    \/ CreateNewConversation
    \/ \E id \in 1..(nextId - 1) : SelectConversation(id)
    \/ \E text \in GateTexts : calls.submits < MaxGateSubmits /\ SetMessage(text)
    \/ calls.submits < MaxGateSubmits /\ HandleSendMessage
    \/ \E found \in SearchResults(TRUE), providerToken \in {NULL, GmailToken} :
          DirectoryResolve(found, providerToken)
    \/ \E result \in InvokeResults : AiResolve(result)
    \/ \E row \in BagToSet(inflight), netOk \in BOOLEAN : UpsertSettled(row, netOk)

SpecGate == Init /\ [][NextGate]_vars

\* the client with sending left out: load, create, delete, select
NextCrud ==
    \/ Mount
    \/ \E providerToken \in {NULL, GmailToken} : InitializeGmailAccess(providerToken)
    \/ \E event \in AuthEvents, providerToken \in {NULL, GmailToken} :
          OnAuthStateChange(event, providerToken)
    \/ \E load \in BagToSet(loads), netOk \in BOOLEAN : LoadFromSupabase(load, netOk)
    \/ CreateNewConversation
    \/ \E id \in 1..(nextId - 1) : DeleteConversation(id)
    \/ \E id \in 1..(nextId - 1) : SelectConversation(id)
    \/ \E row \in BagToSet(inflight), netOk \in BOOLEAN : UpsertSettled(row, netOk)

SpecCrud == Init /\ [][NextCrud]_vars

\* the email side channel: an email request, the lookup, the dialogs and the
\* composer's sends, with a sign-out at any time, also while a lookup is awaited
NextEmail ==
    \/ Mount
    \/ \E providerToken \in {NULL, GmailToken} : InitializeGmailAccess(providerToken)
    \/ \E event \in AuthEvents, providerToken \in {NULL, GmailToken} :
          OnAuthStateChange(event, providerToken)
    \/ \E load \in BagToSet(loads), netOk \in BOOLEAN : LoadFromSupabase(load, netOk)
    \/ \E id \in 1..(nextId - 1) : SelectConversation(id)
    \/ calls.submits < MaxSubmits /\ SetMessage(EmailText)
    \/ calls.submits < MaxSubmits /\ HandleSendMessage
    \/ \E found \in SearchResults(TRUE), providerToken \in {NULL, GmailToken} :
          DirectoryResolve(found, providerToken)
    \/ \E k \in 1..3 : SelectContact(k)
    \/ CloseSelector
    \/ CloseComposer
    \/ \E inp \in ComposerInputs : HandleSend(inp[1], inp[2])
    \/ \E i \in DOMAIN mail.results, ok \in BOOLEAN : SendEmailSettled(i, ok)
    \/ SignOut
    \/ \E row \in BagToSet(inflight), netOk \in BOOLEAN : UpsertSettled(row, netOk)

SpecEmail == Init /\ [][NextEmail]_vars

-----------------------------------------------------------------------------
(* The get-directory function on its own: every request it can be sent *)

\* serve(handler) answers one request
DirectoryRequest(method, bodyOk, hasAuthHeader, authenticated, profile, query) ==
    /\ dirLog' = [method |-> method, bodyOk |-> bodyOk, hasAuthHeader |-> hasAuthHeader,
                  authenticated |-> authenticated, profile |-> profile, query |-> query,
                  resp |-> DirectoryHandler(method, bodyOk, hasAuthHeader, authenticated,
                                            profile, query)]
    /\ UNCHANGED <<conversations, activeConversationId, message, selectedImage, isLoading,
                   emailComposer, contactSelector, gmailAccessToken, user, localStorage,
                   remote, inflight, loadState, pend, nextId, calls, lastOp, proxyLog, mail, stamped,
                   gmailInit, loads>>

InitDirectory ==
    /\ ClientInit
    /\ user = NULL
    /\ localStorage = [chat_conversations |-> <<>>, gmail_access_token |-> NULL]

NextDirectory ==
    \E method \in {"OPTIONS", "POST"}, bodyOk \in BOOLEAN, hasAuthHeader \in BOOLEAN,
       authenticated \in BOOLEAN, profile \in Profiles, query \in DirectoryQueryOutcomes :
        DirectoryRequest(method, bodyOk, hasAuthHeader, authenticated, profile, query)

SpecDirectory == InitDirectory /\ [][NextDirectory]_vars

-----------------------------------------------------------------------------
(* The chat-gemini function on its own: every request it can be sent *)

\* serve(handler) answers one request
ProxyRequest(method, bodyOk, hasKey, provider, text, image) ==
    /\ proxyLog' = [method |-> method, bodyOk |-> bodyOk, hasKey |-> hasKey,
                    provider |-> provider, message |-> text, image |-> image,
                    parts |-> CurrentParts(text, image),
                    resp |-> ProxyHandler(method, bodyOk, hasKey, provider)]
    /\ UNCHANGED <<conversations, activeConversationId, message, selectedImage, isLoading,
                   emailComposer, contactSelector, gmailAccessToken, user, localStorage,
                   remote, inflight, loadState, pend, nextId, calls, lastOp, dirLog, mail, stamped,
                   gmailInit, loads>>

InitProxy ==
    /\ ClientInit
    /\ user = NULL
    /\ localStorage = [chat_conversations |-> <<>>, gmail_access_token |-> NULL]

NextProxy ==
    \E method \in {"OPTIONS", "POST"}, bodyOk \in BOOLEAN, hasKey \in BOOLEAN,
       provider \in ProviderOutcomes, text \in {<<>>, HelloText}, image \in {NULL, ImageData} :
        ProxyRequest(method, bodyOk, hasKey, provider, text, image)

SpecProxy == InitProxy /\ [][NextProxy]_vars

-----------------------------------------------------------------------------
(* The conversation object and its timestamp field: the two object literals of
   handleSendMessage applied to one conversation, with new Date() read from a
   clock that advances between handler runs *)

\* the fields of a conversation object other than its timestamp
WithoutTimestamp(c) == [id |-> c.id, title |-> c.title, messages |-> c.messages]

\* { ...conv, messages: [...conv.messages, userMessage], title: ..., timestamp:
\* new Date() } for the active conversation c, when new Date() reads now
UserTurnObject(c, msg, image, now) ==
    WithTimestamp(AppendUserTurn(<<WithoutTimestamp(c)>>, c.id, msg, image)[1], now)

\* { ...conv, messages: [...conv.messages, aiMessage] } for the dispatched
\* conversation c: the spread copies the timestamp c has
AssistantTurnObject(c, text, now) ==
    WithTimestamp(AppendAssistantTurn(<<WithoutTimestamp(c)>>, c.id, text)[1], c.timestamp)

\* a submission is taken up in the conversation object
StampUserTurn(text, image) ==
    /\ stamped.now < MaxClock
    /\ ~(Trim(text) = <<>> /\ image = NULL)
    /\ stamped' = [conv |-> UserTurnObject(stamped.conv, text, image, stamped.now + 1),
                   now |-> stamped.now + 1,
                   op |-> "user"]
    /\ UNCHANGED <<conversations, activeConversationId, message, selectedImage, isLoading,
                   emailComposer, contactSelector, gmailAccessToken, user, localStorage,
                   remote, inflight, loadState, pend, nextId, calls, lastOp, dirLog,
                   proxyLog, mail, gmailInit, loads>>

\* the answer (or the fallback) to the last user turn is applied to it
StampAssistantTurn(result) ==
    /\ stamped.now < MaxClock
    /\ stamped.op = "user"
    /\ stamped' = [conv |-> AssistantTurnObject(stamped.conv, AssistantText(result),
                                                stamped.now + 1),
                   now |-> stamped.now + 1,
                   op |-> "ai"]
    /\ UNCHANGED <<conversations, activeConversationId, message, selectedImage, isLoading,
                   emailComposer, contactSelector, gmailAccessToken, user, localStorage,
                   remote, inflight, loadState, pend, nextId, calls, lastOp, dirLog,
                   proxyLog, mail, gmailInit, loads>>

InitStamp ==
    /\ ClientInit
    /\ user = NULL
    /\ localStorage = [chat_conversations |-> <<>>, gmail_access_token |-> NULL]

NextStamp ==
    \/ \E sub \in Submissions : StampUserTurn(sub[1], sub[2])
    \/ \E result \in InvokeResults : StampAssistantTurn(result)

SpecStamp == InitStamp /\ [][NextStamp]_vars

-----------------------------------------------------------------------------

(* Claims *)

\* C1: once the initial load has finished, after any sequence of
\* createNewConversation and deleteConversation calls the in-memory
\* conversation set is never empty.
C1_NeverEmpty == loadState = "done" => Len(conversations) > 0

\* C1 witness: the load has finished, the only conversation was deleted, and
\* the set is not empty.
C1_Witness ==
    /\ loadState = "done"
    /\ lastOp.op = "delete"
    /\ lastOp.id = lastOp.was
    /\ activeConversationId = nextId - 1
    /\ Len(conversations) > 0

\* C2 (as claimed): in every reachable state activeConversationId is null or
\* the id of a conversation in the in-memory set.
C2_ActiveIsMember ==
    activeConversationId = NoId \/ activeConversationId \in IdsOf(conversations)

\* C3: deleting the active conversation leaves exactly one valid active
\* conversation: the head of the remaining list if other conversations remain,
\* otherwise a freshly created conversation that is in the set and active.
C3_DeleteActive ==
    [][\A id \in 1..(nextId - 1) :
         (DeleteConversation(id) /\ activeConversationId = id) =>
            LET remaining == [i \in {j \in 1..Len(conversations) : conversations[j].id # id}
                                |-> conversations[i]]
                actives == {i \in 1..Len(conversations') :
                               conversations'[i].id = activeConversationId'}
            IN  /\ Cardinality(actives) = 1
                /\ IF \E c \in 1..Len(conversations) : conversations[c].id # id
                   THEN \E h \in DOMAIN remaining :
                            /\ \A j \in DOMAIN remaining : h <= j
                            /\ activeConversationId' = remaining[h].id
                   ELSE /\ activeConversationId' \notin IdsOf(conversations)
                        /\ activeConversationId' \notin 1..(nextId - 1)
                        /\ \A i \in actives :
                             /\ conversations'[i].title = NewChatTitle
                             /\ conversations'[i].messages = <<Message("ai", Greeting, NULL)>>
      ]_vars

\* C3 witness: the active conversation was the only one, it was deleted, and a
\* freshly created conversation is active.
C3_Witness ==
    /\ lastOp.op = "delete"
    /\ lastOp.id = lastOp.was
    /\ lastOp.id # NoId
    /\ activeConversationId = nextId - 1
    /\ activeConversationId \in IdsOf(conversations)

\* C4 (as claimed): after deleteConversation(id) completes, no conversation
\* with identifier id is in the in-memory set.
C4_DeletedIsGone ==
    lastOp.op = "delete" => lastOp.id \notin IdsOf(conversations)

\* C5 (as claimed): after an explicit delete, and with no synchronization
\* pending, the backing store no longer holds the conversation: no remote row
\* for a signed-in user, no entry in the on-device blob for a guest.
C5_DeletedFromStore ==
    (lastOp.op = "delete" /\ inflight = EmptyBag) =>
        IF user # NULL
        THEN \A i \in 1..Len(remote) :
                 ~(remote[i].user_id = user /\ remote[i].conversation_id = lastOp.id)
        ELSE lastOp.id \notin IdsOf(LoadConversations(localStorage))

\* text consists of whitespace only (or of nothing)
AllWhitespace(text) == \A i \in 1..Len(text) : IsWhitespace(text[i])

\* C6: when a user turn is appended to the active conversation, a title that is
\* still 'New Chat' becomes the first 30 characters of the text, followed by
\* '...' iff the text is longer than 30 characters; any other title is unchanged.
C6_TitleOnUserTurn ==
    [][(/\ HandleSendMessage
        /\ ~(AllWhitespace(message) /\ selectedImage = NULL)
        /\ activeConversationId \in IdsOf(conversations)) =>
          /\ Len(conversations') = Len(conversations)
          /\ \A i \in 1..Len(conversations) :
               conversations[i].id = activeConversationId =>
                  /\ conversations'[i].messages =
                         conversations[i].messages \o
                             <<[role |-> "user", content |-> message, image |-> selectedImage]>>
                  /\ conversations[i].title # NewChatTitle =>
                         conversations'[i].title = conversations[i].title
                  /\ (conversations[i].title = NewChatTitle /\ Len(message) <= 30) =>
                         conversations'[i].title = message
                  /\ (conversations[i].title = NewChatTitle /\ Len(message) > 30) =>
                         conversations'[i].title = SubSeq(message, 1, 30) \o Ellipsis
      ]_vars

\* C6 witness: a 31-character text was sent in a conversation titled 'New Chat'
\* and the title now is its first 30 characters and '...'.
C6_Witness ==
    /\ pend.pc = "ai"
    /\ pend.message = Text31
    /\ pend.activeConversation # <<>>
    /\ pend.activeConversation[1].title = NewChatTitle
    /\ \E i \in 1..Len(conversations) :
         /\ conversations[i].id = pend.activeConversationId
         /\ conversations[i].title = SubSeq(Text31, 1, 30) \o Ellipsis

\* C7: submitting whitespace-only (or empty) text with no image is a no-op: no
\* message is appended, the conversation set, the active id and the loading flag
\* are unchanged, and neither the directory lookup nor the AI proxy is invoked.
C7_EmptySubmitNoOp ==
    [][(/\ HandleSendMessage
        /\ AllWhitespace(message)
        /\ selectedImage = NULL) =>
          /\ UNCHANGED <<conversations, activeConversationId, isLoading, localStorage,
                         inflight, pend, emailComposer, contactSelector>>
          /\ calls'.ai = calls.ai
          /\ calls'.dir = calls.dir
      ]_vars

\* C7 witness: whitespace was submitted in an active conversation and nothing
\* was sent or appended.
C7_Witness ==
    /\ lastOp.op = "send"
    /\ lastOp.was \in IdsOf(conversations)
    /\ message = BlankText
    /\ selectedImage = NULL
    /\ calls.submits = 1
    /\ calls.ai = 0
    /\ calls.dir = 0
    /\ ~isLoading
    /\ pend = Idle

\* C8 (as claimed): an upsert that reaches the database leaves exactly one
\* stored row for its conversation identifier, holding the content written.
C8_UpsertOneRow ==
    [][\A row \in BagToSet(inflight) :
         UpsertSettled(row, TRUE) =>
            LET rows == {i \in 1..Len(remote') :
                            remote'[i].conversation_id = row.conversation_id}
            IN  /\ Cardinality(rows) = 1
                /\ \A i \in rows : /\ remote'[i].user_id = row.user_id
                                   /\ remote'[i].title = row.title
                                   /\ remote'[i].messages = row.messages
      ]_vars

\* the proxy call failed: no data came back, or the body has no response string
ProxyCallFailed(result) ==
    \/ result.error
    \/ result.data = <<>>
    \/ result.data[1].response = NoText

\* the conversation the suspended handleSendMessage was dispatched for, as
\* captured, has as its messages in convs the captured ones followed by one
\* assistant message with the given text
OneAssistantMessage(convs, text) ==
    \A i \in 1..Len(pend.updatedConversations) :
        pend.updatedConversations[i].id = pend.activeConversationId =>
            /\ i <= Len(convs)
            /\ convs[i].id = pend.activeConversationId
            /\ convs[i].messages =
                   pend.updatedConversations[i].messages \o
                       <<[role |-> "ai", content |-> text, image |-> NULL]>>

\* C9: any failure of the proxy call (an error, no data, or a body without a
\* response string) appends exactly one assistant message with the fixed
\* fallback text to the dispatched conversation.
C9_FailureGivesFallback ==
    [][\A result \in InvokeResults :
         (AiResolve(result) /\ ProxyCallFailed(result)) =>
            OneAssistantMessage(conversations', ClientFallbackText)
      ]_vars

\* the caller of get-directory has no profile with the educational-account flag set
LacksFlag == dirLog.method # "none" /\ dirLog.profile # "flag_true"

\* C10 (as claimed): a caller whose profile lacks the flag always receives a
\* 403 with an error body, never contact data, and no directory query runs.
C10_NoFlagAlways403 ==
    LacksFlag =>
        /\ dirLog.resp.status = 403
        /\ dirLog.resp.hasBody /\ dirLog.resp.error # NULL
        /\ ~dirLog.resp.hasContacts
        /\ ~dirLog.resp.queried

\* C10 (amended): a caller whose profile lacks the flag never receives contact
\* data and no directory query runs for it; it receives a 403 with an error
\* body whenever the request is not a preflight, its body parses and its
\* Authorization header resolves to a user, a 500 with an error body for any
\* other non-preflight request, and the empty 200 for a preflight.
C10_NoFlagNoContacts ==
    LacksFlag =>
        /\ ~dirLog.resp.hasContacts
        /\ dirLog.resp.contacts = <<>>
        /\ ~dirLog.resp.queried
        /\ (dirLog.method # "OPTIONS" /\ dirLog.bodyOk /\ dirLog.hasAuthHeader
               /\ dirLog.authenticated) =>
              (dirLog.resp.status = 403 /\ dirLog.resp.hasBody /\ dirLog.resp.error # NULL)
        /\ (dirLog.method # "OPTIONS" /\ ~(dirLog.bodyOk /\ dirLog.hasAuthHeader
               /\ dirLog.authenticated)) =>
              (dirLog.resp.status = 500 /\ dirLog.resp.hasBody /\ dirLog.resp.error # NULL)
        /\ dirLog.method = "OPTIONS" => (dirLog.resp.status = 200 /\ ~dirLog.resp.hasBody)

\* C10 witness: an authenticated caller whose flag is false asked for contacts
\* the directory holds and was answered 403.
C10_Witness ==
    /\ dirLog.method = "POST"
    /\ dirLog.bodyOk /\ dirLog.hasAuthHeader /\ dirLog.authenticated
    /\ dirLog.profile = "flag_false"
    /\ dirLog.query.contacts # <<>>
    /\ dirLog.resp.status = 403

\* the last message of the conversation with identifier id in convs is the user
\* message with the given text and image
EndsWithUserTurn(convs, id, text, image) ==
    \E i \in 1..Len(convs) :
        /\ convs[i].id = id
        /\ Len(convs[i].messages) > 0
        /\ convs[i].messages[Len(convs[i].messages)] =
               [role |-> "user", content |-> text, image |-> image]

\* C11: a submission that is taken up leaves the user message as the last
\* message of the active conversation, and the proxy is called only in that
\* step or, for an email intent, after it; when the exchange resolves, the
\* conversation's messages are the ones it had when the turn was sent, then
\* that user message, then exactly one assistant message.
C11_UserThenAssistant ==
    [][/\ (HandleSendMessage /\ pend'.pc # "idle") =>
             EndsWithUserTurn(conversations', activeConversationId, message, selectedImage)
       /\ calls'.ai = calls.ai + 1 =>
             \/ pend.pc = "dir"
             \/ /\ HandleSendMessage
                /\ EndsWithUserTurn(conversations', activeConversationId, message,
                                    selectedImage)
       /\ \A result \in InvokeResults :
             AiResolve(result) =>
                \E i \in 1..Len(conversations') :
                   LET msgs == conversations'[i].messages
                       n == Len(msgs)
                   IN  /\ conversations'[i].id = pend.activeConversationId
                       /\ n >= 2
                       /\ msgs[n - 1] = [role |-> "user", content |-> pend.message,
                                         image |-> pend.selectedImage]
                       /\ msgs[n].role = "ai"
                       /\ SubSeq(msgs, 1, n - 2) = pend.activeConversation[1].messages
      ]_vars

\* C11 witness: 'Hello' was sent in a new conversation and answered: the title
\* is 'Hello' and the messages are greeting, user, assistant.
C11_Witness ==
    /\ lastOp.op = "ai"
    /\ \E i \in 1..Len(conversations) :
         /\ conversations[i].id = lastOp.id
         /\ conversations[i].title = HelloText
         /\ Len(conversations[i].messages) = 3
         /\ conversations[i].messages[1] =
                [role |-> "ai", content |-> Greeting, image |-> NULL]
         /\ conversations[i].messages[2] =
                [role |-> "user", content |-> HelloText, image |-> NULL]
         /\ conversations[i].messages[3].role = "ai"

\* the text contains both 'send' and 'email', in any letter case
MentionsSendAndEmail(text) ==
    /\ \E i \in 1..Len(text) : OccursAt(text, PatternSend, i)
    /\ \E i \in 1..Len(text) : OccursAt(text, PatternEmail, i)

\* C12: when an email-intent message's directory lookup returns exactly one
\* contact, the composer opens with exactly that contact, the AI proxy is not
\* invoked for the turn (the handler finishes without a call pending) and no
\* assistant message is appended.
C12_SingleContactOpensComposer ==
    [][\A found \in SearchResults(TRUE), providerToken \in {NULL, GmailToken} :
         (DirectoryResolve(found, providerToken) /\ Len(found) = 1) =>
            /\ MentionsSendAndEmail(pend.message)
            /\ emailComposer' = [isOpen |-> TRUE, contacts |-> found]
            /\ calls'.ai = calls.ai
            /\ pend'.pc = "idle"
            /\ ~isLoading'
            /\ conversations' = conversations
            /\ contactSelector' = contactSelector
      ]_vars

\* C12 witness: the lookup for "Jane Doe" returned one contact and the
\* composer is open with her alone; the conversation ends with the user turn.
C12_Witness ==
    /\ lastOp.op = "directory"
    /\ emailComposer = [isOpen |-> TRUE, contacts |-> <<Contact1>>]
    /\ ~contactSelector.isOpen
    /\ calls.dir = 1
    /\ calls.ai = 0
    /\ EndsWithUserTurn(conversations, lastOp.id, EmailText, NULL)

\* C13: when an email-intent lookup returns more than one contact, the contact
\* selector opens with those contacts and the AI proxy is not invoked;
\* selecting the k-th entry closes the selector and opens the composer with
\* exactly that contact; dismissing the selector closes it and leaves the
\* composer as it was.
C13_SelectorFlow ==
    [][/\ \A found \in SearchResults(TRUE), providerToken \in {NULL, GmailToken} :
             (DirectoryResolve(found, providerToken) /\ Len(found) > 1) =>
                /\ contactSelector'.isOpen
                /\ contactSelector'.contacts = found
                /\ emailComposer' = emailComposer
                /\ calls'.ai = calls.ai
                /\ pend'.pc = "idle"
                /\ conversations' = conversations
       /\ \A k \in 1..3 :
             SelectContact(k) =>
                /\ ~contactSelector'.isOpen
                /\ emailComposer'.isOpen
                /\ emailComposer'.contacts = <<contactSelector.contacts[k]>>
       /\ CloseSelector =>
             /\ ~contactSelector'.isOpen
             /\ emailComposer' = emailComposer
      ]_vars

\* C13 witness: two contacts were offered and the second was selected: the
\* selector is closed and the composer holds the second contact alone.
C13_Witness ==
    /\ lastOp.op = "directory"
    /\ calls.dir = 1
    /\ calls.ai = 0
    /\ ~contactSelector.isOpen
    /\ emailComposer = [isOpen |-> TRUE, contacts |-> <<Contact2>>]

\* C14 (as claimed): when an email-intent lookup is made and returns no contact, the flow
\* drops back to idle: the AI proxy is not invoked for the turn and no
\* assistant message is added.
C14_NoContactDropsToIdle ==
    [][\A found \in SearchResults(TRUE), providerToken \in {NULL, GmailToken} :
         (/\ DirectoryResolve(found, providerToken)
          /\ pend.gmailAccessToken # NULL
          /\ Len(found) = 0) =>
            /\ calls'.ai = calls.ai
            /\ pend'.pc = "idle"
            /\ ~isLoading'
            /\ conversations' = conversations
      ]_vars

\* C15 (as claimed): once the session has loaded, the on-device blob holds the
\* full current in-memory conversation set, with or without an authenticated
\* identity (every mutation of the set is followed by a rewrite of the blob).
C15_BlobEqualsMemory ==
    loadState = "done" => LoadConversations(localStorage) = conversations

\* C16 (as claimed): a failed upsert changes neither the in-memory set nor the
\* active id, takes nothing back from the store and is not sent again, the
\* other upserts of the round stay under way, and an upsert that reaches the
\* database is applied: the store then holds its conversation's content.
C16_FailedUpsertNonFatal ==
    [][\A row \in BagToSet(inflight) :
         /\ UpsertSettled(row, FALSE) =>
               /\ conversations' = conversations
               /\ activeConversationId' = activeConversationId
               /\ remote' = remote
               /\ inflight' = inflight (-) SetToBag({row})
         /\ UpsertSettled(row, TRUE) =>
               /\ conversations' = conversations
               /\ activeConversationId' = activeConversationId
               /\ inflight' = inflight (-) SetToBag({row})
               /\ \E i \in 1..Len(remote') :
                     /\ remote'[i].conversation_id = row.conversation_id
                     /\ remote'[i].title = row.title
                     /\ remote'[i].messages = row.messages
      ]_vars

\* the rows of chat_histories owned by usr, as indices into the table
OwnRows(table, usr) == {k \in 1..Len(table) : table[k].user_id = usr}

\* conversation conv carries the identifier, title and messages of row, whose
\* messages column holds either the array or its JSON text
FromRow(conv, row) ==
    /\ conv.id = row.conversation_id
    /\ conv.title = row.title
    /\ row.messages \in {JSONStringify(conv.messages), conv.messages}

\* convs is one conversation, created now: fresh identifier, default title,
\* only the greeting
OnlyFresh(convs) ==
    /\ Len(convs) = 1
    /\ convs[1].id = nextId
    /\ convs[1].title = NewChatTitle
    /\ convs[1].messages = <<[role |-> "ai", content |-> Greeting, image |-> NULL]>>

\* C17: load on session start.  With an identity, the in-memory set becomes
\* exactly the conversations stored remotely for that identity, most recently
\* updated first, head active, or one new conversation if none are returned;
\* without an identity, it becomes the stored on-device set, head active, or
\* one new conversation if nothing was stored.
C17_LoadOnStart ==
    [][/\ \A load \in BagToSet(loads), netOk \in BOOLEAN :
             (LoadFromSupabase(load, netOk) /\ load.userId = user) =>
                IF netOk /\ OwnRows(remote, user) # {}
                THEN /\ Len(conversations') = Cardinality(OwnRows(remote, user))
                     /\ \A i \in 1..Len(conversations') :
                           \E k \in OwnRows(remote, user) :
                              /\ FromRow(conversations'[i], remote[k])
                              /\ \A j \in (i + 1)..Len(conversations') :
                                    \E l \in OwnRows(remote, user) \ {k} :
                                       /\ FromRow(conversations'[j], remote[l])
                                       /\ remote[l].updated_at <= remote[k].updated_at
                     /\ activeConversationId' = conversations'[1].id
                ELSE /\ OnlyFresh(conversations')
                     /\ activeConversationId' = nextId
       /\ (Mount /\ user = NULL) =>
             IF localStorage.chat_conversations # <<>>
                /\ Len(JSONParse(localStorage.chat_conversations[1])) > 0
             THEN /\ conversations' = JSONParse(localStorage.chat_conversations[1])
                  /\ activeConversationId' = conversations'[1].id
             ELSE /\ OnlyFresh(conversations')
                  /\ activeConversationId' = nextId
      ]_vars

\* C17 witness: a signed-in user whose two stored conversations sit next to
\* another account's row has loaded them, the later-updated one first and
\* active.
C17_Witness ==
    /\ user = UserId
    /\ loadState = "done"
    /\ lastOp.op = "load"
    /\ Len(remote) = 3
    /\ Len(conversations) = 2
    /\ conversations[1].id = SeedB.id
    /\ conversations[2] = SeedA
    /\ activeConversationId = SeedB.id

\* C18 (as claimed): every call of createNewConversation puts a new
\* conversation (fresh identifier, default title, only the greeting) at the
\* head of the set and makes it active, and the conversations present before
\* follow it, unchanged and in the same order.
C18_CreatePrepends ==
    [][nextId' = nextId + 1 =>
          /\ nextId \notin IdsOf(conversations)
          /\ Len(conversations') = Len(conversations) + 1
          /\ conversations'[1] =
                 [id |-> nextId, title |-> NewChatTitle,
                  messages |-> <<[role |-> "ai", content |-> Greeting, image |-> NULL]>>]
          /\ activeConversationId' = nextId
          /\ SubSeq(conversations', 2, Len(conversations')) = conversations
      ]_vars

\* C19 (as claimed): the chat-gemini handler answers every request: OPTIONS
\* with an empty 200; any other request with status 200 and a body holding a
\* string `response`, or with a non-2xx status and a body holding both
\* `error` and `fallbackResponse`.
C19_ProxyContract ==
    proxyLog.method # "none" =>
        LET resp == proxyLog.resp
        IN  IF proxyLog.method = "OPTIONS"
            THEN resp.status = 200 /\ resp.body = <<>>
            ELSE \/ /\ resp.status = 200
                    /\ resp.body # <<>>
                    /\ resp.body[1].response # NoText
                 \/ /\ resp.status \notin 200..299
                    /\ resp.body # <<>>
                    /\ resp.body[1].error # NULL
                    /\ resp.body[1].fallbackResponse # NoText

\* C20 (as claimed): confirming the composer issues exactly one send call per
\* selected contact, with the subject and body entered; a failed send is not
\* issued again and is reported, and the user has not been told that the
\* emails of that confirmation were sent.
C20_SendOnceAndReportFailure ==
    [][/\ \A inp \in ComposerInputs :
             (HandleSend(inp[1], inp[2]) /\ ~AllWhitespace(inp[1]) /\ ~AllWhitespace(inp[2])) =>
                /\ Len(mail'.sends) = Len(mail.sends) + Len(emailComposer.contacts)
                /\ \A c \in 1..Len(emailComposer.contacts) :
                      LET call == mail'.sends[Len(mail.sends) + c]
                      IN  /\ call.to = emailComposer.contacts[c].contact_email
                          /\ call.subject = inp[1]
                          /\ call.body = inp[2]
       /\ \A i \in DOMAIN mail.results :
             SendEmailSettled(i, FALSE) =>
                /\ mail'.sends = mail.sends
                /\ mail'.results[i] = "failed"
                /\ mail.sends[i].confirm \notin mail'.announced
      ]_vars

\* C21: while an exchange is in flight, the contents built from its request
\* have one entry per message the conversation had before the user turn, in
\* the same order, with role 'ai' sent as 'model' and 'user' as 'user', and
\* then one 'user' entry for the current message: as many entries as the
\* conversation has messages now that the user turn is appended, so the
\* current message is in the request once.
C21_RequestContents ==
    pend.pc = "ai" =>
        LET contents == Contents(pend.request[1])
            conv == FindConv(conversations, pend.activeConversationId)
            msgs == conv[1].messages
            n == Len(msgs)
        IN  /\ conv # <<>>
            /\ Len(contents) = n
            /\ \A i \in 1..(n - 1) :
                 /\ contents[i].role = (IF msgs[i].role = "ai" THEN "model" ELSE "user")
                 /\ contents[i].parts = CurrentParts(msgs[i].content, msgs[i].image)
            /\ msgs[n] = [role |-> "user", content |-> pend.message,
                          image |-> pend.selectedImage]
            /\ contents[n] = [role |-> "user",
                              parts |-> CurrentParts(pend.message, pend.selectedImage)]

\* C21 witness: 'Hello' is in flight in the stored conversation 'Homework'
\* (assistant, user, assistant): the contents are model, user, model, user.
C21_Witness ==
    /\ pend.pc = "ai"
    /\ pend.activeConversationId = SeedA.id
    /\ pend.message = HelloText
    /\ LET contents == Contents(pend.request[1])
       IN  /\ Len(contents) = 4
           /\ [i \in 1..4 |-> contents[i].role] = <<"model", "user", "model", "user">>
           /\ contents[4].parts = <<[kind |-> "text", value |-> HelloText]>>

\* C22: when the answer of an exchange is applied, the conversation the turn
\* was sent in is in the set with the messages it had after the user turn and
\* one assistant message after them, and no other conversation of the set has
\* gained a message: each has the messages it had before the step, or, when
\* it was not in the set before the step, the messages it had at dispatch.
C22_ResponseGoesToDispatched ==
    [][(pend.pc = "ai" /\ pend'.pc = "idle") =>
          LET id == pend.activeConversationId
              sent == FindConv(pend.updatedConversations, id)
          IN  /\ sent # <<>>
              /\ \E i \in 1..Len(conversations') :
                   LET msgs == conversations'[i].messages
                   IN  /\ conversations'[i].id = id
                       /\ Len(msgs) = Len(sent[1].messages) + 1
                       /\ SubSeq(msgs, 1, Len(msgs) - 1) = sent[1].messages
                       /\ msgs[Len(msgs)].role = "ai"
              /\ \A i \in 1..Len(conversations') :
                   conversations'[i].id # id =>
                      LET before == FindConv(conversations, conversations'[i].id)
                          atSend == FindConv(pend.updatedConversations, conversations'[i].id)
                      IN  IF before # <<>>
                          THEN conversations'[i].messages = before[1].messages
                          ELSE /\ atSend # <<>>
                               /\ conversations'[i].messages = atSend[1].messages
      ]_vars

\* C22 witness: the answer arrived after the user had switched to another
\* conversation; the assistant message is the last one of the conversation the
\* turn was sent in, and the conversation now active ends as it did before.
C22_Witness ==
    /\ lastOp.op = "ai"
    /\ lastOp.was # lastOp.id
    /\ lastOp.was = activeConversationId
    /\ \E i, j \in 1..Len(conversations) :
         /\ conversations[i].id = lastOp.id
         /\ conversations[i].messages[Len(conversations[i].messages)].role = "ai"
         /\ conversations[i].messages[Len(conversations[i].messages) - 1].role = "user"
         /\ conversations[j].id = activeConversationId
         /\ conversations[j].messages = <<Message("ai", Greeting, NULL)>>

\* C23: when the external calls settle, the loading flag set by an accepted
\* submit is eventually cleared again, whichever path the turn takes.
C23_LoadingClears == isLoading ~> ~isLoading

\* C23 witness: an email request sent without a Gmail token went on to the
\* AI exchange and was answered; the loading flag is cleared.
C23_Witness ==
    /\ ~isLoading
    /\ pend = Idle
    /\ lastOp.op = "ai"
    /\ calls = [submits |-> 1, ai |-> 1, dir |-> 0]
    /\ gmailAccessToken = NULL
    /\ \E i \in 1..Len(conversations) :
         /\ conversations[i].id = lastOp.id
         /\ Len(conversations[i].messages) >= 2
         /\ conversations[i].messages[Len(conversations[i].messages) - 1].content = EmailText

\* C24: after a user turn or an assistant (or fallback) turn was appended to a
\* conversation, its timestamp is the time at which that was done.
C24_MutationStampsConversation ==
    stamped.op \in {"user", "ai"} => stamped.conv.timestamp = stamped.now

\* a is an initial part of b
IsPrefix(a, b) == Len(a) <= Len(b) /\ SubSeq(b, 1, Len(a)) = a

\* C25: in every step, a conversation identifier that is in the in-memory set
\* before and after the step has afterwards a message list that starts with
\* the message list it had before: messages are only appended.
C25_MessagesAppendOnly ==
    [][\A i \in 1..Len(conversations), j \in 1..Len(conversations') :
          conversations[i].id = conversations'[j].id =>
             IsPrefix(conversations[i].messages, conversations'[j].messages)
      ]_vars

\* C25 witness: a turn was sent and answered in the stored conversation
\* 'Homework' while another conversation was created: its three stored
\* messages are still the first three of five.
C25_Witness ==
    /\ lastOp.op = "ai"
    /\ nextId > FirstFreshId
    /\ \E i \in 1..Len(conversations) :
         /\ conversations[i].id = SeedA.id
         /\ Len(conversations[i].messages) = 5
         /\ SubSeq(conversations[i].messages, 1, 3) = SeedA.messages
         /\ conversations[i].messages[4].role = "user"
         /\ conversations[i].messages[5].role = "ai"

\* C26: without a Gmail token, sendEmail sends nothing and shows the 'Gmail
\* access required' toast for each contact, an email request starts no
\* get-directory call, and when searchDirectory has returned the turn is over:
\* no chat-gemini call, no change of the conversations, the handler idle and
\* the loading flag cleared.
C26_NoCredentialAborts ==
    [][/\ \A inp \in ComposerInputs :
             (/\ HandleSend(inp[1], inp[2])
              /\ gmailAccessToken = NULL
              /\ Trim(inp[1]) # <<>>
              /\ Trim(inp[2]) # <<>>) =>
                /\ mail'.sends = mail.sends
                /\ mail'.needToken = mail.needToken + Len(emailComposer.contacts)
       /\ (HandleSendMessage /\ message = EmailText /\ gmailAccessToken = NULL) =>
             calls'.dir = calls.dir
       /\ (pend.pc = "dir" /\ pend.gmailAccessToken = NULL /\ pend'.pc # "dir") =>
             /\ calls' = calls
             /\ pend' = Idle
             /\ ~isLoading'
             /\ conversations' = conversations
      ]_vars

\* C27: the step that applies an answer (or the fallback) leaves the set with
\* the identifiers it had just before, so a conversation created meanwhile is
\* still there and one deleted meanwhile is still gone, and every
\* conversation other than the dispatched one is as it was just before.
C27_ResponseFrame ==
    [][(pend.pc = "ai" /\ pend'.pc = "idle") =>
          /\ IdsOf(conversations') = IdsOf(conversations)
          /\ \A i \in 1..Len(conversations), j \in 1..Len(conversations') :
               (/\ conversations[i].id = conversations'[j].id
                /\ conversations[i].id # pend.activeConversationId) =>
                  conversations'[j] = conversations[i]
      ]_vars

\* C29: a request (directory lookup or AI exchange) is under way only while
\* the loading flag is set, and while the flag is set no submit is taken:
\* handleSendMessage does not run again until the flag is cleared, whatever
\* conversation is active by then.
C29_OneRequestAtATime ==
    [][/\ pend.pc # "idle" => isLoading
       /\ isLoading => calls'.submits = calls.submits
      ]_vars

\* C29 witness: two exchanges were made one after the other, the second in a
\* conversation created after the first was sent, and both were answered.
C29_Witness ==
    /\ calls.submits = 2
    /\ calls.ai = 2
    /\ ~isLoading
    /\ lastOp.op = "ai"
    /\ nextId > FirstFreshId
    /\ \E i, j \in 1..Len(conversations) :
         /\ i # j
         /\ conversations[i].messages[Len(conversations[i].messages)].role = "ai"
         /\ conversations[j].messages[Len(conversations[j].messages)].role = "ai"
         /\ Len(conversations[i].messages) >= 3
         /\ Len(conversations[j].messages) >= 3

\* C30: the set the guest has after a sign-out contains no conversation that
\* was in the signed-in user's in-memory set or among that user's remote rows.
C30_GuestSeesNoUserConversations ==
    [][(user # NULL /\ user' = NULL) =>
          \A i \in 1..Len(conversations') :
             /\ conversations'[i].id \notin IdsOf(conversations)
             /\ \A k \in OwnRows(remote, user) :
                  remote[k].conversation_id # conversations'[i].id
      ]_vars

====
